---- MODULE Spec2Model ----
(***************************************************************************)
(* Model of the MQTT remote desktop controller (mqttrdc).                  *)
(*                                                                         *)
(* Two threads are modelled: "dispatch", the paho network loop that calls  *)
(* MQTTController.on_message once per delivered message, and "periodic",   *)
(* the main thread of MQTTController.start() that calls update_status in a *)
(* loop when STATUS_UPDATE_DELAY is truthy.  Every call into an external   *)
(* collaborator (ALSA mixer, keyboard, MQTT publish) is one atomic step.   *)
(***************************************************************************)
EXTENDS Integers, Sequences, FiniteSets, TLC

\* ------------------------------------------------------------------------
\* Bounds of the model
\* ------------------------------------------------------------------------
MaxMsgs == 2
MaxTicks == 2
StepMsgs == 1
PeriodicMsgs == 1
SnapshotMsgs == 2

Min(a, b) == IF a < b THEN a ELSE b
Max(a, b) == IF a > b THEN a ELSE b

\* ------------------------------------------------------------------------
\* JSON values, as json.loads produces them
\* ------------------------------------------------------------------------
\* t: the Python type of the value; i: integer value (or integer part, or
\* 0/1 for a bool); f: tenths of the fractional part of a float; s: text.
\* Two values of the text stand apart because json.loads can fail on them:
\* "longint", an integer literal of more than 4300 digits (an int of at
\* least BIG where it is converted), and "deep", arrays nested deeper than
\* the interpreter's recursion limit (never converted).  A payload holds at
\* most one value of these two kinds.
BIG == 1000000000
JV(t, i, f, s) == [t |-> t, i |-> i, f |-> f, s |-> s]
Absent == JV("absent", 0, 0, "")
JInt(n) == JV("int", n, 0, "")
JFloat(n, tenths) == JV("float", n, tenths, "")
JStr(s) == JV("str", 0, 0, s)
JBool(b) == JV("bool", IF b THEN 1 ELSE 0, 0, "")
JNull == JV("null", 0, 0, "")
JLongInt == JV("longint", BIG, 0, "")
JDeep == JV("deep", 0, 0, "")

Keys == {"volume", "volumeCtrl", "mute", "toggle"}
NoFields == [k \in Keys |-> Absent]

\* A message payload.  kind: "badutf8" (bytes that are not UTF-8), "badjson"
\* (text that is not JSON) or "json".  top: the type of the top-level JSON
\* value ("longint" and "deep" as for the values above).  For an object, f
\* gives the value under each recognized key and extra the value under
\* another key, Absent when it has none; for a string (array), has is the
\* set of recognized key names occurring in it as substrings (elements).
Payload(kind, top, has, f, extra) ==
    [kind |-> kind, top |-> top, has |-> has, f |-> f, extra |-> extra]
BadUtf8 == Payload("badutf8", "none", {}, NoFields, Absent)
BadJson == Payload("badjson", "none", {}, NoFields, Absent)
Obj(f) == Payload("json", "object", {}, f, Absent)
ObjWith(f, v) == Payload("json", "object", {}, f, v)
ObjExtra(f) == ObjWith(f, JStr("hi"))
Scalar(top) == Payload("json", top, {}, NoFields, Absent)
StrOrArray(top, has) == Payload("json", top, has, NoFields, Absent)
One(k, v) == [NoFields EXCEPT ![k] = v]
Two(k1, v1, k2, v2) == [NoFields EXCEPT ![k1] = v1, ![k2] = v2]

\* ------------------------------------------------------------------------
\* Command Schema Set (jsonschema.validate against the class schemas)
\* ------------------------------------------------------------------------
VOLUME_MIN == 0
VOLUME_MAX == 100

\* The schemas name no "$schema" and the repository pins neither library
\* nor interpreter, so what the build installs decides two things:
\*   jsonschema          the draft validate() checks against by default:
\*                       "draft4" (jsonschema before 3.0, draft 3/4 types)
\*                       or "draft6" (draft 6 and later);
\*   int_max_str_digits  sys.get_int_max_str_digits(), which int() and
\*                       json.loads obey: 4300 by default where the
\*                       interpreter has the limit, 0 where it has none
\*                       or the limit is switched off;
\*   unicode             the version of the Unicode standard the
\*                       interpreter's character database follows
\*                       (unicodedata.unidata_version), which decides the
\*                       characters int() reads as digits: 9 in Python
\*                       3.6, 11 in 3.7, 12 in 3.8, 13 in 3.9 and 3.10,
\*                       14 in 3.11, 15 in 3.12 and 3.13, 16 in 3.14.
VARIABLE build

MAX_STR_DIGITS == 4300
Build(draft, digits, unicode) ==
    [jsonschema |-> draft, int_max_str_digits |-> digits, unicode |-> unicode]
Drafts == {"draft4", "draft6"}
DigitLimits == {0, MAX_STR_DIGITS}

\* "type": "integer" -- an int that is not a bool; from draft 6 on also a
\* float without a fractional part.
is_integer(v) ==
    \/ v.t \in {"int", "longint"}
    \/ build.jsonschema = "draft6" /\ v.t = "float" /\ v.f = 0
is_number(v) == v.t \in {"int", "longint", "float"}
is_string(v) == v.t = "str"
is_boolean(v) == v.t = "bool"

\* "minimum"/"maximum" only constrain numbers; a float i + f/10 with f > 0
\* is above i and below i + 1.
minimum_ok(v, m) == is_number(v) => v.i >= m
maximum_ok(v, m) == is_number(v) => (v.i < m \/ (v.i = m /\ v.f = 0))

\* The volume schema; the first variant lacks the "maximum" keyword.
volume_schema_NoMaximum(v) == is_integer(v) /\ minimum_ok(v, VOLUME_MIN)
volume_schema(v) ==
    is_integer(v) /\ minimum_ok(v, VOLUME_MIN) /\ maximum_ok(v, VOLUME_MAX)
volume_ctrl_schema(v) == is_string(v) /\ v.s \in {"+", "-"}
mute_schema_Truthy(v) == is_boolean(v) \/ is_integer(v)
mute_schema(v) == is_boolean(v)
toggle_schema(v) == is_string(v) /\ v.s \in {"mute", "pause"}

\* validate(payload, schema): the instance must be an object, and the
\* property named by the schema, when present, must match.
validate(p, k) ==
    /\ p.top = "object"
    /\ p.f[k].t # "absent" =>
          CASE k = "volume" -> volume_schema(p.f[k])
            [] k = "volumeCtrl" -> volume_ctrl_schema(p.f[k])
            [] k = "mute" -> mute_schema(p.f[k])
            [] k = "toggle" -> toggle_schema(p.f[k])

\* ------------------------------------------------------------------------
\* Exceptions and their handlers
\* ------------------------------------------------------------------------
\* Python's class hierarchy for the exceptions that occur (SystemExit is a
\* BaseException, not an Exception; socket.gaierror is an OSError but not a
\* ConnectionError).
IsInstance(exc, cls) ==
    \/ exc = cls
    \/ (cls = "Exception" /\ exc # "SystemExit")
    \/ (cls = "ValueError" /\ exc \in {"UnicodeDecodeError", "JSONDecodeError"})
    \/ (cls = "ConnectionError" /\ exc = "ConnectionRefusedError")

\* The except clauses of on_message, in order; "propagated" when none
\* matches.
\* The variant lacks the final `except Exception` clause.
on_message_NoCatchAll(exc) ==
    IF IsInstance(exc, "UnicodeDecodeError") THEN "EncodingError"
    ELSE IF IsInstance(exc, "JSONDecodeError") THEN "MalformedJsonError"
    ELSE IF IsInstance(exc, "ValidationError") THEN "ValidationError"
    ELSE IF IsInstance(exc, "ValueError") THEN "UnrecognizedCommandError"
    ELSE "propagated"
on_message_except(exc) ==
    IF IsInstance(exc, "UnicodeDecodeError") THEN "EncodingError"
    ELSE IF IsInstance(exc, "JSONDecodeError") THEN "MalformedJsonError"
    ELSE IF IsInstance(exc, "ValidationError") THEN "ValidationError"
    ELSE IF IsInstance(exc, "ValueError") THEN "UnrecognizedCommandError"
    ELSE IF IsInstance(exc, "Exception") THEN "UnexpectedError"
    ELSE "propagated"

\* The except clause of update_status.
\* (the first variant catches nothing)
update_status_NoExcept(exc) == FALSE
update_status_except(exc) == IsInstance(exc, "ValueError")

\* ------------------------------------------------------------------------
\* Command Decoder: handle_message up to its first device call
\* ------------------------------------------------------------------------
Raise(exc) == [exc |-> exc, op |-> "none", arg |-> Absent]
Command(op, arg) == [exc |-> "none", op |-> op, arg |-> arg]

\* Python's `key in payload`: membership for an object and an array,
\* substring for a string; the other JSON values are not iterable.
Iterable(p) == p.top \in {"object", "str", "array"}
Contains(p, k) ==
    IF p.top = "object" THEN p.f[k].t # "absent" ELSE k \in p.has

\* json.loads(text): JSONDecodeError for text that is not JSON,
\* RecursionError for nesting beyond the recursion limit, and the plain
\* ValueError of int() for an integer literal beyond the digit limit.
Values(p) == {p.f[k] : k \in Keys} \cup {p.extra}
json_loads(p) ==
    IF p.kind = "badjson" THEN "JSONDecodeError"
    ELSE IF p.top = "deep" \/ \E v \in Values(p) : v.t = "deep"
    THEN "RecursionError"
    ELSE IF /\ build.int_max_str_digits > 0
            /\ (p.top = "longint" \/ \E v \in Values(p) : v.t = "longint")
    THEN "ValueError"
    ELSE "none"

Branch(p, k, op) ==
    IF validate(p, k) THEN Command(op, p.f[k]) ELSE Raise("ValidationError")

handle_message(p) ==
    IF p.kind = "badutf8" THEN Raise("UnicodeDecodeError")
    ELSE IF json_loads(p) # "none" THEN Raise(json_loads(p))
    ELSE IF ~Iterable(p) THEN Raise("TypeError")
    ELSE IF Contains(p, "volume") THEN Branch(p, "volume", "volume")
    ELSE IF Contains(p, "volumeCtrl") THEN Branch(p, "volumeCtrl", "volumeCtrl")
    ELSE IF Contains(p, "mute") THEN Branch(p, "mute", "mute")
    ELSE IF Contains(p, "toggle") THEN Branch(p, "toggle", "toggle")
    ELSE Raise("ValueError")

\* ------------------------------------------------------------------------
\* Configuration (MQTTControllerManager)
\* ------------------------------------------------------------------------
DEFAULT_VOLUME_STEP == 10
STEP_MIN == 1
STEP_MAX == 100

\* A configuration key: present or not, and the Python value stored under
\* it: an int (val), a str (text, its characters) or None.
NotSet == [present |-> FALSE, kind |-> "NoneType", val |-> 0, text |-> <<>>]
SetTo(n) == [present |-> TRUE, kind |-> "int", val |-> n, text |-> <<>>]
SetToStr(chars) ==
    [present |-> TRUE, kind |-> "str", val |-> 0, text |-> chars]
SetToNone == [present |-> TRUE, kind |-> "NoneType", val |-> 0, text |-> <<>>]

\* What a conversion gives: the exception raised, or the int.  An int of
\* magnitude below BIG is val; a larger one has BIG (or -BIG) as val and
\* its digits, leading zeros dropped, as big.
Ok(n) == [exc |-> "none", val |-> n, big |-> <<>>]
OkBig(sign, digits) == [exc |-> "none", val |-> sign * BIG, big |-> digits]
Err(exc) == [exc |-> exc, val |-> 0, big |-> <<>>]

\* Python's int(): an int is returned as it is, None raises TypeError, and
\* a str is stripped of surrounding whitespace and must then be an optional
\* sign followed by decimal digits, where single underscores may separate
\* digits, else ValueError; where the interpreter limits the length of the
\* conversion, a number of more digits is a ValueError too.
\* A str is the sequence of its characters: an ASCII character stands for
\* itself, any other is written by its code point, as in "U+00A0".
DigitChars == <<"0", "1", "2", "3", "4", "5", "6", "7", "8", "9">>

\* The characters int() skips around the number.
Whitespace ==
    {"\t", "\n", "U+000B", "\f", "\r", " ", "U+0085", "U+00A0", "U+1680",
     "U+2000", "U+2001", "U+2002", "U+2003", "U+2004", "U+2005", "U+2006",
     "U+2007", "U+2008", "U+2009", "U+200A", "U+2028", "U+2029", "U+202F",
     "U+205F", "U+3000"}

\* The decimal digits of every script (Unicode category Nd), zero to nine,
\* of Unicode 16.0; DigitsUnicode gives, row by row, the version of the
\* standard that added the script's digits (9 for 9.0 and everything
\* before it).
DecimalDigits ==
    <<<<"0", "1", "2", "3", "4",
       "5", "6", "7", "8", "9">>,
      <<"U+0660", "U+0661", "U+0662", "U+0663", "U+0664",
       "U+0665", "U+0666", "U+0667", "U+0668", "U+0669">>,
      <<"U+06F0", "U+06F1", "U+06F2", "U+06F3", "U+06F4",
       "U+06F5", "U+06F6", "U+06F7", "U+06F8", "U+06F9">>,
      <<"U+07C0", "U+07C1", "U+07C2", "U+07C3", "U+07C4",
       "U+07C5", "U+07C6", "U+07C7", "U+07C8", "U+07C9">>,
      <<"U+0966", "U+0967", "U+0968", "U+0969", "U+096A",
       "U+096B", "U+096C", "U+096D", "U+096E", "U+096F">>,
      <<"U+09E6", "U+09E7", "U+09E8", "U+09E9", "U+09EA",
       "U+09EB", "U+09EC", "U+09ED", "U+09EE", "U+09EF">>,
      <<"U+0A66", "U+0A67", "U+0A68", "U+0A69", "U+0A6A",
       "U+0A6B", "U+0A6C", "U+0A6D", "U+0A6E", "U+0A6F">>,
      <<"U+0AE6", "U+0AE7", "U+0AE8", "U+0AE9", "U+0AEA",
       "U+0AEB", "U+0AEC", "U+0AED", "U+0AEE", "U+0AEF">>,
      <<"U+0B66", "U+0B67", "U+0B68", "U+0B69", "U+0B6A",
       "U+0B6B", "U+0B6C", "U+0B6D", "U+0B6E", "U+0B6F">>,
      <<"U+0BE6", "U+0BE7", "U+0BE8", "U+0BE9", "U+0BEA",
       "U+0BEB", "U+0BEC", "U+0BED", "U+0BEE", "U+0BEF">>,
      <<"U+0C66", "U+0C67", "U+0C68", "U+0C69", "U+0C6A",
       "U+0C6B", "U+0C6C", "U+0C6D", "U+0C6E", "U+0C6F">>,
      <<"U+0CE6", "U+0CE7", "U+0CE8", "U+0CE9", "U+0CEA",
       "U+0CEB", "U+0CEC", "U+0CED", "U+0CEE", "U+0CEF">>,
      <<"U+0D66", "U+0D67", "U+0D68", "U+0D69", "U+0D6A",
       "U+0D6B", "U+0D6C", "U+0D6D", "U+0D6E", "U+0D6F">>,
      <<"U+0DE6", "U+0DE7", "U+0DE8", "U+0DE9", "U+0DEA",
       "U+0DEB", "U+0DEC", "U+0DED", "U+0DEE", "U+0DEF">>,
      <<"U+0E50", "U+0E51", "U+0E52", "U+0E53", "U+0E54",
       "U+0E55", "U+0E56", "U+0E57", "U+0E58", "U+0E59">>,
      <<"U+0ED0", "U+0ED1", "U+0ED2", "U+0ED3", "U+0ED4",
       "U+0ED5", "U+0ED6", "U+0ED7", "U+0ED8", "U+0ED9">>,
      <<"U+0F20", "U+0F21", "U+0F22", "U+0F23", "U+0F24",
       "U+0F25", "U+0F26", "U+0F27", "U+0F28", "U+0F29">>,
      <<"U+1040", "U+1041", "U+1042", "U+1043", "U+1044",
       "U+1045", "U+1046", "U+1047", "U+1048", "U+1049">>,
      <<"U+1090", "U+1091", "U+1092", "U+1093", "U+1094",
       "U+1095", "U+1096", "U+1097", "U+1098", "U+1099">>,
      <<"U+17E0", "U+17E1", "U+17E2", "U+17E3", "U+17E4",
       "U+17E5", "U+17E6", "U+17E7", "U+17E8", "U+17E9">>,
      <<"U+1810", "U+1811", "U+1812", "U+1813", "U+1814",
       "U+1815", "U+1816", "U+1817", "U+1818", "U+1819">>,
      <<"U+1946", "U+1947", "U+1948", "U+1949", "U+194A",
       "U+194B", "U+194C", "U+194D", "U+194E", "U+194F">>,
      <<"U+19D0", "U+19D1", "U+19D2", "U+19D3", "U+19D4",
       "U+19D5", "U+19D6", "U+19D7", "U+19D8", "U+19D9">>,
      <<"U+1A80", "U+1A81", "U+1A82", "U+1A83", "U+1A84",
       "U+1A85", "U+1A86", "U+1A87", "U+1A88", "U+1A89">>,
      <<"U+1A90", "U+1A91", "U+1A92", "U+1A93", "U+1A94",
       "U+1A95", "U+1A96", "U+1A97", "U+1A98", "U+1A99">>,
      <<"U+1B50", "U+1B51", "U+1B52", "U+1B53", "U+1B54",
       "U+1B55", "U+1B56", "U+1B57", "U+1B58", "U+1B59">>,
      <<"U+1BB0", "U+1BB1", "U+1BB2", "U+1BB3", "U+1BB4",
       "U+1BB5", "U+1BB6", "U+1BB7", "U+1BB8", "U+1BB9">>,
      <<"U+1C40", "U+1C41", "U+1C42", "U+1C43", "U+1C44",
       "U+1C45", "U+1C46", "U+1C47", "U+1C48", "U+1C49">>,
      <<"U+1C50", "U+1C51", "U+1C52", "U+1C53", "U+1C54",
       "U+1C55", "U+1C56", "U+1C57", "U+1C58", "U+1C59">>,
      <<"U+A620", "U+A621", "U+A622", "U+A623", "U+A624",
       "U+A625", "U+A626", "U+A627", "U+A628", "U+A629">>,
      <<"U+A8D0", "U+A8D1", "U+A8D2", "U+A8D3", "U+A8D4",
       "U+A8D5", "U+A8D6", "U+A8D7", "U+A8D8", "U+A8D9">>,
      <<"U+A900", "U+A901", "U+A902", "U+A903", "U+A904",
       "U+A905", "U+A906", "U+A907", "U+A908", "U+A909">>,
      <<"U+A9D0", "U+A9D1", "U+A9D2", "U+A9D3", "U+A9D4",
       "U+A9D5", "U+A9D6", "U+A9D7", "U+A9D8", "U+A9D9">>,
      <<"U+A9F0", "U+A9F1", "U+A9F2", "U+A9F3", "U+A9F4",
       "U+A9F5", "U+A9F6", "U+A9F7", "U+A9F8", "U+A9F9">>,
      <<"U+AA50", "U+AA51", "U+AA52", "U+AA53", "U+AA54",
       "U+AA55", "U+AA56", "U+AA57", "U+AA58", "U+AA59">>,
      <<"U+ABF0", "U+ABF1", "U+ABF2", "U+ABF3", "U+ABF4",
       "U+ABF5", "U+ABF6", "U+ABF7", "U+ABF8", "U+ABF9">>,
      <<"U+FF10", "U+FF11", "U+FF12", "U+FF13", "U+FF14",
       "U+FF15", "U+FF16", "U+FF17", "U+FF18", "U+FF19">>,
      <<"U+104A0", "U+104A1", "U+104A2", "U+104A3", "U+104A4",
       "U+104A5", "U+104A6", "U+104A7", "U+104A8", "U+104A9">>,
      <<"U+10D30", "U+10D31", "U+10D32", "U+10D33", "U+10D34",
       "U+10D35", "U+10D36", "U+10D37", "U+10D38", "U+10D39">>,
      <<"U+10D40", "U+10D41", "U+10D42", "U+10D43", "U+10D44",
       "U+10D45", "U+10D46", "U+10D47", "U+10D48", "U+10D49">>,
      <<"U+11066", "U+11067", "U+11068", "U+11069", "U+1106A",
       "U+1106B", "U+1106C", "U+1106D", "U+1106E", "U+1106F">>,
      <<"U+110F0", "U+110F1", "U+110F2", "U+110F3", "U+110F4",
       "U+110F5", "U+110F6", "U+110F7", "U+110F8", "U+110F9">>,
      <<"U+11136", "U+11137", "U+11138", "U+11139", "U+1113A",
       "U+1113B", "U+1113C", "U+1113D", "U+1113E", "U+1113F">>,
      <<"U+111D0", "U+111D1", "U+111D2", "U+111D3", "U+111D4",
       "U+111D5", "U+111D6", "U+111D7", "U+111D8", "U+111D9">>,
      <<"U+112F0", "U+112F1", "U+112F2", "U+112F3", "U+112F4",
       "U+112F5", "U+112F6", "U+112F7", "U+112F8", "U+112F9">>,
      <<"U+11450", "U+11451", "U+11452", "U+11453", "U+11454",
       "U+11455", "U+11456", "U+11457", "U+11458", "U+11459">>,
      <<"U+114D0", "U+114D1", "U+114D2", "U+114D3", "U+114D4",
       "U+114D5", "U+114D6", "U+114D7", "U+114D8", "U+114D9">>,
      <<"U+11650", "U+11651", "U+11652", "U+11653", "U+11654",
       "U+11655", "U+11656", "U+11657", "U+11658", "U+11659">>,
      <<"U+116C0", "U+116C1", "U+116C2", "U+116C3", "U+116C4",
       "U+116C5", "U+116C6", "U+116C7", "U+116C8", "U+116C9">>,
      <<"U+116D0", "U+116D1", "U+116D2", "U+116D3", "U+116D4",
       "U+116D5", "U+116D6", "U+116D7", "U+116D8", "U+116D9">>,
      <<"U+116DA", "U+116DB", "U+116DC", "U+116DD", "U+116DE",
       "U+116DF", "U+116E0", "U+116E1", "U+116E2", "U+116E3">>,
      <<"U+11730", "U+11731", "U+11732", "U+11733", "U+11734",
       "U+11735", "U+11736", "U+11737", "U+11738", "U+11739">>,
      <<"U+118E0", "U+118E1", "U+118E2", "U+118E3", "U+118E4",
       "U+118E5", "U+118E6", "U+118E7", "U+118E8", "U+118E9">>,
      <<"U+11950", "U+11951", "U+11952", "U+11953", "U+11954",
       "U+11955", "U+11956", "U+11957", "U+11958", "U+11959">>,
      <<"U+11BF0", "U+11BF1", "U+11BF2", "U+11BF3", "U+11BF4",
       "U+11BF5", "U+11BF6", "U+11BF7", "U+11BF8", "U+11BF9">>,
      <<"U+11C50", "U+11C51", "U+11C52", "U+11C53", "U+11C54",
       "U+11C55", "U+11C56", "U+11C57", "U+11C58", "U+11C59">>,
      <<"U+11D50", "U+11D51", "U+11D52", "U+11D53", "U+11D54",
       "U+11D55", "U+11D56", "U+11D57", "U+11D58", "U+11D59">>,
      <<"U+11DA0", "U+11DA1", "U+11DA2", "U+11DA3", "U+11DA4",
       "U+11DA5", "U+11DA6", "U+11DA7", "U+11DA8", "U+11DA9">>,
      <<"U+11F50", "U+11F51", "U+11F52", "U+11F53", "U+11F54",
       "U+11F55", "U+11F56", "U+11F57", "U+11F58", "U+11F59">>,
      <<"U+16130", "U+16131", "U+16132", "U+16133", "U+16134",
       "U+16135", "U+16136", "U+16137", "U+16138", "U+16139">>,
      <<"U+16A60", "U+16A61", "U+16A62", "U+16A63", "U+16A64",
       "U+16A65", "U+16A66", "U+16A67", "U+16A68", "U+16A69">>,
      <<"U+16AC0", "U+16AC1", "U+16AC2", "U+16AC3", "U+16AC4",
       "U+16AC5", "U+16AC6", "U+16AC7", "U+16AC8", "U+16AC9">>,
      <<"U+16B50", "U+16B51", "U+16B52", "U+16B53", "U+16B54",
       "U+16B55", "U+16B56", "U+16B57", "U+16B58", "U+16B59">>,
      <<"U+16D70", "U+16D71", "U+16D72", "U+16D73", "U+16D74",
       "U+16D75", "U+16D76", "U+16D77", "U+16D78", "U+16D79">>,
      <<"U+1CCF0", "U+1CCF1", "U+1CCF2", "U+1CCF3", "U+1CCF4",
       "U+1CCF5", "U+1CCF6", "U+1CCF7", "U+1CCF8", "U+1CCF9">>,
      <<"U+1D7CE", "U+1D7CF", "U+1D7D0", "U+1D7D1", "U+1D7D2",
       "U+1D7D3", "U+1D7D4", "U+1D7D5", "U+1D7D6", "U+1D7D7">>,
      <<"U+1D7D8", "U+1D7D9", "U+1D7DA", "U+1D7DB", "U+1D7DC",
       "U+1D7DD", "U+1D7DE", "U+1D7DF", "U+1D7E0", "U+1D7E1">>,
      <<"U+1D7E2", "U+1D7E3", "U+1D7E4", "U+1D7E5", "U+1D7E6",
       "U+1D7E7", "U+1D7E8", "U+1D7E9", "U+1D7EA", "U+1D7EB">>,
      <<"U+1D7EC", "U+1D7ED", "U+1D7EE", "U+1D7EF", "U+1D7F0",
       "U+1D7F1", "U+1D7F2", "U+1D7F3", "U+1D7F4", "U+1D7F5">>,
      <<"U+1D7F6", "U+1D7F7", "U+1D7F8", "U+1D7F9", "U+1D7FA",
       "U+1D7FB", "U+1D7FC", "U+1D7FD", "U+1D7FE", "U+1D7FF">>,
      <<"U+1E140", "U+1E141", "U+1E142", "U+1E143", "U+1E144",
       "U+1E145", "U+1E146", "U+1E147", "U+1E148", "U+1E149">>,
      <<"U+1E2F0", "U+1E2F1", "U+1E2F2", "U+1E2F3", "U+1E2F4",
       "U+1E2F5", "U+1E2F6", "U+1E2F7", "U+1E2F8", "U+1E2F9">>,
      <<"U+1E4F0", "U+1E4F1", "U+1E4F2", "U+1E4F3", "U+1E4F4",
       "U+1E4F5", "U+1E4F6", "U+1E4F7", "U+1E4F8", "U+1E4F9">>,
      <<"U+1E5F1", "U+1E5F2", "U+1E5F3", "U+1E5F4", "U+1E5F5",
       "U+1E5F6", "U+1E5F7", "U+1E5F8", "U+1E5F9", "U+1E5FA">>,
      <<"U+1E950", "U+1E951", "U+1E952", "U+1E953", "U+1E954",
       "U+1E955", "U+1E956", "U+1E957", "U+1E958", "U+1E959">>,
      <<"U+1FBF0", "U+1FBF1", "U+1FBF2", "U+1FBF3", "U+1FBF4",
       "U+1FBF5", "U+1FBF6", "U+1FBF7", "U+1FBF8", "U+1FBF9">>>>
DigitsUnicode ==
    <<9, 9, 9, 9, 9, 9, 9, 9, 9, 9, 9, 9, 9, 9, 9, 9, 9, 9, 9,
      9, 9, 9, 9, 9, 9, 9, 9, 9, 9, 9, 9, 9, 9, 9, 9, 9, 9, 9,
      11, 16, 9, 9, 9, 9, 9, 9, 9, 9, 9, 16, 16, 9, 9, 13, 16, 9, 10,
      11, 15, 16, 9, 14, 9, 16, 16, 9, 9, 9, 9, 9, 12, 12, 15, 16, 9, 13>>

\* The characters the interpreter's database knows as decimal digits.
IsDigit(ch) ==
    \E b \in DOMAIN DecimalDigits :
        /\ \E d \in 1..10 : DecimalDigits[b][d] = ch
        /\ DigitsUnicode[b] <= build.unicode
DigitValue(ch) ==
    (CHOOSE d \in 1..10 :
        \E b \in DOMAIN DecimalDigits : DecimalDigits[b][d] = ch) - 1
RECURSIVE LStrip(_)
LStrip(s) ==
    IF s # <<>> /\ Head(s) \in Whitespace THEN LStrip(Tail(s)) ELSE s
RECURSIVE RStrip(_)
RStrip(s) ==
    IF s # <<>> /\ s[Len(s)] \in Whitespace
    THEN RStrip(SubSeq(s, 1, Len(s) - 1))
    ELSE s
\* Digits, each underscore between two digits.
DigitGroups(s) ==
    /\ s # <<>>
    /\ \A k \in 1..Len(s) :
          \/ IsDigit(s[k])
          \/ /\ s[k] = "_"
             /\ 1 < k /\ k < Len(s)
             /\ IsDigit(s[k - 1]) /\ IsDigit(s[k + 1])
\* The digits of a number, its underscores not counted.
DigitCount(s) == Cardinality({k \in 1..Len(s) : s[k] # "_"})
\* The digits from the first one that is not a zero: the leading zeros
\* add nothing to the value.
Zeros == {DecimalDigits[b][1] : b \in DOMAIN DecimalDigits}
Significant(s) ==
    LET nonzero == {k \in 1..Len(s) : s[k] \notin Zeros \cup {"_"}}
    IN  IF nonzero = {} THEN <<>>
        ELSE SubSeq(s, CHOOSE k \in nonzero : \A j \in nonzero : k <= j,
                    Len(s))
\* The number of digits of the ints below BIG.
BIG_DIGITS == 9
RECURSIVE DigitsValue(_, _)
DigitsValue(s, acc) ==
    IF s = <<>> THEN acc
    ELSE IF Head(s) = "_" THEN DigitsValue(Tail(s), acc)
    ELSE DigitsValue(Tail(s), acc * 10 + DigitValue(Head(s)))
int_str(s) ==
    LET stripped == RStrip(LStrip(s))
        signed == stripped # <<>> /\ Head(stripped) \in {"+", "-"}
        digits == IF signed THEN Tail(stripped) ELSE stripped
    IN  IF ~DigitGroups(digits)
        THEN Err("ValueError")
        ELSE IF /\ build.int_max_str_digits > 0
                /\ DigitCount(digits) > build.int_max_str_digits
        THEN Err("ValueError")
        ELSE LET sign == IF signed /\ Head(stripped) = "-" THEN 0 - 1 ELSE 1
                 sig == SelectSeq(Significant(digits), LAMBDA ch : ch # "_")
             IN  IF Len(sig) > BIG_DIGITS
                 THEN OkBig(sign, [k \in 1..Len(sig) |-> DigitValue(sig[k])])
                 ELSE Ok(sign * DigitsValue(sig, 0))
int(c) ==
    CASE c.kind = "int" -> Ok(c.val)
      [] c.kind = "str" -> int_str(c.text)
      [] c.kind = "NoneType" -> Err("TypeError")

\* str() of a natural number, for the decimal strings of the inputs.
RECURSIVE str(_)
str(n) ==
    IF n < 10 THEN <<DigitChars[n + 1]>>
    ELSE Append(str(n \div 10), DigitChars[(n % 10) + 1])

\* The variants leave out the range check, or exclude the upper bound.
volume_step_NoRange(c) ==
    IF c.present THEN int(c) ELSE Ok(DEFAULT_VOLUME_STEP)
volume_step(c) ==
    IF c.present
    THEN LET step == int(c)
         IN  IF step.exc # "none" THEN step
             ELSE IF step.val \in STEP_MIN..STEP_MAX THEN Ok(step.val)
             ELSE Err("ValueError")
    ELSE Ok(DEFAULT_VOLUME_STEP)

\* None is modelled as -1, which no valid delay equals.
None == 0 - 1
status_update_delay(c) ==
    IF c.present
    THEN LET delay == int(c)
         IN  IF delay.exc # "none" THEN delay
             ELSE IF delay.val >= 0 THEN delay
             ELSE Err("ValueError")
    ELSE Ok(None)

\* What a property that gives a str returns: the exception raised, or the
\* str by its characters; None is a value of kind "NoneType".
Str(chars) == [exc |-> "none", kind |-> "str", text |-> chars]
NoneValue == [exc |-> "none", kind |-> "NoneType", text |-> <<>>]
Raises(exc) == [exc |-> exc, kind |-> "NoneType", text |-> <<>>]

\* broker, control_topic and status_topic: self[KEY], a KeyError when the
\* key is missing, then ValueError unless the value is a non-empty str.
broker(c) ==
    IF ~c.present THEN Raises("KeyError")
    ELSE IF c.kind = "str" /\ c.text # <<>> THEN Str(c.text)
    ELSE Raises("ValueError")
control_topic(c) ==
    IF ~c.present THEN Raises("KeyError")
    ELSE IF c.kind = "str" /\ c.text # <<>> THEN Str(c.text)
    ELSE Raises("ValueError")
status_topic(c) ==
    IF ~c.present THEN Raises("KeyError")
    ELSE IF c.kind = "str" /\ c.text # <<>> THEN Str(c.text)
    ELSE Raises("ValueError")

\* port: int(self[KEY]).
port(c) == IF c.present THEN int(c) ELSE Err("KeyError")

\* user and password: None when the key is missing, ValueError when its
\* value is not a str.
user(c) ==
    IF ~c.present THEN NoneValue
    ELSE IF c.kind = "str" THEN Str(c.text)
    ELSE Raises("ValueError")
password(c) ==
    IF ~c.present THEN NoneValue
    ELSE IF c.kind = "str" THEN Str(c.text)
    ELSE Raises("ValueError")

\* Python truthiness of `self.config.status_update_delay`.
Truthy(n) == n # None /\ n # 0

\* time.sleep(secs) converts secs to nanoseconds in 64 bits and raises
\* OverflowError above SLEEP_MAX = 9223372036 seconds. Up to SLEEP_MAX the
\* outcome depends on the interpreter and the clock: Python 3.11 and later
\* sleep until an absolute deadline (now + secs) and raise OSError when it
\* is beyond the same range, earlier versions sleep for a relative time and
\* raise nothing; for a system that has been up for less than
\* SLEEP_MAX - BIG seconds OSError can only happen to delays of at least
\* BIG.
SLEEP_MAX == <<9, 2, 2, 3, 3, 7, 2, 0, 3, 6>>
RECURSIVE Above(_, _)
Above(a, b) ==
    IF Len(a) # Len(b) THEN Len(a) > Len(b)
    ELSE IF a = <<>> THEN FALSE
    ELSE IF Head(a) # Head(b) THEN Head(a) > Head(b)
    ELSE Above(Tail(a), Tail(b))
time_sleep(delay) ==
    IF delay.big = <<>> THEN {"none"}
    ELSE IF Above(delay.big, SLEEP_MAX) THEN {"OverflowError"}
    ELSE {"none", "OSError"}

\* The values volume_up and volume_down set (the NoClamp variants leave
\* out min and max).
volume_up_NoClamp(cur, step) == cur + step
volume_up(cur, step) == Min(cur + step, 100)
volume_down_NoClamp(cur, step) == cur - step
volume_down(cur, step) == Max(cur - step, 0)

\* ------------------------------------------------------------------------
\* Inputs
\* ------------------------------------------------------------------------
VolumeValues ==
    {JInt(0 - 1), JInt(0), JInt(50), JInt(100), JInt(101), JFloat(50, 0),
     JFloat(50, 5), JFloat(100, 5), JStr("10"), JBool(TRUE), JNull}
VolumeCtrlValues ==
    {JStr("+"), JStr("-"), JStr("++"), JStr("--"), JStr("+-"), JStr("-+"),
     JStr(""), JInt(1)}
MuteValues ==
    {JBool(TRUE), JBool(FALSE), JInt(0), JInt(1), JStr("true"), JStr("True"),
     JStr("false"), JStr("False")}
ToggleValues ==
    {JStr("mute"), JStr("pause"), JStr("Mute"), JStr("Pause"), JStr("play"),
     JInt(1)}

\* The values json.loads can fail on.
LoadsValues == {JLongInt, JDeep}
ValuesOf(k) ==
    LoadsValues \cup
        CASE k = "volume" -> VolumeValues
          [] k = "volumeCtrl" -> VolumeCtrlValues
          [] k = "mute" -> MuteValues
          [] k = "toggle" -> ToggleValues

\* For the payloads with several keys: one good and one bad value per key.
FewValuesOf(k) ==
    CASE k = "volume" -> {JInt(50), JInt(101), JFloat(50, 0)}
      [] k = "volumeCtrl" -> {JStr("+"), JStr("++")}
      [] k = "mute" -> {JBool(TRUE), JStr("bad")}
      [] k = "toggle" -> {JStr("pause"), JInt(1)}

SingleKeyPayloads ==
    UNION {{Obj(One(k, v)) : v \in ValuesOf(k)} : k \in Keys}
TwoKeyPayloads ==
    UNION {{Obj(Two(kk[1], v1, kk[2], v2)) : v1 \in FewValuesOf(kk[1]),
                                             v2 \in FewValuesOf(kk[2])} :
           kk \in {x \in Keys \X Keys : x[1] # x[2]}}
\* A first key with a good or a bad value, and a later key whose value
\* json.loads can fail on.
TwoKeyLoadsPayloads ==
    {Obj(Two("volume", v1, k2, v2)) :
        v1 \in {JInt(50), JInt(101)}, k2 \in {"mute", "toggle"},
        v2 \in LoadsValues}
AllKeysPayloads ==
    {Obj([volume |-> JInt(50), volumeCtrl |-> JStr("-"),
          mute |-> JBool(TRUE), toggle |-> JStr("pause")]),
     Obj([volume |-> JStr("50"), volumeCtrl |-> JStr("+"),
          mute |-> JBool(TRUE), toggle |-> JStr("mute")]),
     Obj([volume |-> Absent, volumeCtrl |-> JStr("-"),
          mute |-> JInt(1), toggle |-> JStr("Pause")])}
NoKeyPayloads ==
    {Obj(NoFields), ObjExtra(NoFields)}
        \cup {ObjWith(NoFields, v) : v \in LoadsValues}
\* Strings and arrays holding recognized key names ("volumeCtrl" holds
\* "volume" as a substring).
NonObjectPayloads ==
    {Scalar(top) : top \in {"int", "float", "bool", "null", "longint",
                            "deep"}}
        \cup {StrOrArray("str", has) :
                has \in {{}, {"volume"}, {"volume", "volumeCtrl"}, {"mute"},
                         {"toggle"}}}
        \cup {StrOrArray("array", has) :
                has \in {{}, {"volume"}, {"volumeCtrl"}, {"mute", "toggle"}}}
Payloads ==
    {BadUtf8, BadJson} \cup SingleKeyPayloads \cup NoKeyPayloads
        \cup NonObjectPayloads
SeveralKeysPayloads ==
    TwoKeyPayloads \cup TwoKeyLoadsPayloads \cup AllKeysPayloads

\* The six well-formed commands and one that is not.
CommandPayloads ==
    {Obj(One("volume", JInt(50))), Obj(One("volumeCtrl", JStr("+"))),
     Obj(One("volumeCtrl", JStr("-"))), Obj(One("mute", JBool(TRUE))),
     Obj(One("toggle", JStr("mute"))), Obj(One("toggle", JStr("pause"))),
     ObjExtra(NoFields)}
StepPayloads ==
    {Obj(One("volumeCtrl", JStr("+"))), Obj(One("volumeCtrl", JStr("-")))}

\* Outcomes of the external collaborators.
MixerResults == {"ok", "ALSAAudioError"}
KeyboardResults == {"ok", "XError"}
PublishResults == {"MQTT_ERR_SUCCESS", "MQTT_ERR_NO_CONN", "ValueError"}


\* What mqttc.connect and mqttc.subscribe do in start(): connect returns or
\* raises (a refused connection, a host name that does not resolve, a host
\* or port the client rejects); subscribe returns a result code or raises
\* ValueError for a topic that is no subscription filter.
ConnectResults == {"ok", "ConnectionRefusedError", "gaierror", "ValueError"}
SubscribeResults == {"MQTT_ERR_SUCCESS", "MQTT_ERR_NO_CONN", "ValueError"}
Net(connect, subscribe) == [connect |-> connect, subscribe |-> subscribe]
Connected == Net("ok", "MQTT_ERR_SUCCESS")
Nets == {Net(c, r) : c \in ConnectResults, r \in SubscribeResults}

\* A configuration with a broker, a port and both topics, without
\* credentials, and with the given VOLUME_STEP and STATUS_UPDATE_DELAY.
Config(step, delay) ==
    [MQTT_BROKER_ADDR |-> SetToStr(<<"h", "o", "s", "t">>),
     MQTT_BROKER_PORT |-> SetToStr(<<"1", "8", "8", "3">>),
     MQTT_BROKER_USER |-> NotSet,
     MQTT_BROKER_PWD |-> NotSet,
     MQTT_CONTROL_TOPIC |-> SetToStr(<<"c", "t", "l">>),
     MQTT_STATUS_TOPIC |-> SetToStr(<<"s", "t", "s">>),
     VOLUME_STEP |-> step,
     STATUS_UPDATE_DELAY |-> delay]
\* The configuration c with one key changed.
With(c, key, value) == [c EXCEPT ![key] = value]

\* ------------------------------------------------------------------------
\* State
\* ------------------------------------------------------------------------
VARIABLES
    cfg,        \* self.config: the configuration keys the controller reads
    period,     \* what self.config.status_update_delay gives start(): the
                \* environment is not written, so every read gives the same
    net,        \* what mqttc.connect and mqttc.subscribe do in start()
    devVolume,  \* the mixer's volume, audio_mixer.getvolume()[0]
    devMute,    \* the mixer's mute switch, bool(audio_mixer.getmute()[0])
    keyLog,     \* the keyboard events sent so far
    pubLog,     \* the calls of mqttc.publish so far, with their results
    pc,         \* position of each thread
    snap,       \* per thread, the status dictionary being built
    disp,       \* the frame of the current (or last) call of on_message
    calls,      \* the method it invoked and the external calls it made
    seen,       \* per thread, the device states since its update_status began
    delivered,  \* number of messages handed to on_message
    executed,   \* number of dispatches of a status command that succeeded
    ticks,      \* number of sleeps of the periodic loop
    exited      \* "no", or how the main thread has left start(): the
                \* sys.exit call, or the exception that passed its except
                \* clauses

vars ==
    <<build, cfg, period, net, devVolume, devMute, keyLog, pubLog, pc, snap,
      disp, calls, seen, delivered, executed, ticks, exited>>

Threads == {"dispatch", "periodic"}

NoMessage ==
    [msg |-> BadJson, op |-> "none", arg |-> Absent, curVolume |-> 0,
     curMute |-> FALSE, step |-> 0, exc |-> "none", outcome |-> "none",
     wrote |-> FALSE,
     startVolume |-> 0, startMute |-> FALSE, startKeys |-> 0, startPub |-> 0]

\* The main thread runs start(), then stop(), and the interpreter ends the
\* process; until then the network thread that loop_start made, a daemon
\* thread, keeps running.
ProcessRuns == pc["periodic"] # "ended"

\* What start() raises before it enters a loop, "none" if nothing: it
\* reads the credentials (the password only if the user is a non-empty
\* str), the broker and the port, connects, reads the control topic,
\* subscribes (a rejected subscription is logged only) and reads the
\* delay.
start_raises(c, n, delay) ==
    LET usr == user(c.MQTT_BROKER_USER)
        pwd == password(c.MQTT_BROKER_PWD)
        host == broker(c.MQTT_BROKER_ADDR)
        prt == port(c.MQTT_BROKER_PORT)
        topic == control_topic(c.MQTT_CONTROL_TOPIC)
    IN  IF usr.exc # "none" THEN usr.exc
        ELSE IF usr.text # <<>> /\ pwd.exc # "none" THEN pwd.exc
        ELSE IF host.exc # "none" THEN host.exc
        ELSE IF prt.exc # "none" THEN prt.exc
        ELSE IF n.connect # "ok" THEN n.connect
        ELSE IF topic.exc # "none" THEN topic.exc
        ELSE IF n.subscribe = "ValueError" THEN "ValueError"
        ELSE delay.exc

\* The except clauses of start(), in order: ConnectionError, ValueError and
\* Exception each log and call sys.exit(1).  The clause for ValueError
\* reads self.config.control_topic for its message: if that raises, the
\* new exception leaves start() in place of the exit.
start_except(exc) ==
    IF IsInstance(exc, "ConnectionError") THEN "sys.exit(1)"
    ELSE IF IsInstance(exc, "ValueError")
    THEN LET topic == control_topic(cfg.MQTT_CONTROL_TOPIC)
         IN  IF topic.exc # "none" THEN topic.exc ELSE "sys.exit(1)"
    ELSE IF IsInstance(exc, "Exception") THEN "sys.exit(1)"
    ELSE "propagated"

\* update_status evaluates the arguments of publish from the left:
\* self.config.status_topic first.  What that raises and update_status
\* does not catch, "none" if it goes on to read the mixer, "return" if it
\* catches the exception and returns.
update_status_topic ==
    LET topic == status_topic(cfg.MQTT_STATUS_TOPIC)
    IN  IF topic.exc = "none" THEN "none"
        ELSE IF update_status_except(topic.exc) THEN "return"
        ELSE topic.exc

InitWith(builds, configs, nets, volumes, mutes) ==
    /\ build \in builds
    /\ cfg \in configs
    /\ net \in nets
    /\ devVolume \in volumes
    /\ devMute \in mutes
    /\ keyLog = <<>>
    /\ pubLog = <<>>
    /\ period = status_update_delay(cfg.STATUS_UPDATE_DELAY)
    /\ LET raised == start_raises(cfg, net, period)
           first == update_status_topic
       IN  IF raised # "none"
           THEN /\ pc = [dispatch |-> "not_started", periodic |-> "exited"]
                /\ exited = start_except(raised)
           ELSE IF ~Truthy(period.val)
           THEN /\ pc = [dispatch |-> "idle", periodic |-> "loop_forever"]
                /\ exited = "no"
           ELSE IF first \in {"none", "return"}
           THEN /\ pc = [dispatch |-> "idle",
                         periodic |-> IF first = "none"
                                      THEN "status_volume" ELSE "sleep"]
                /\ exited = "no"
           ELSE /\ pc = [dispatch |-> "idle", periodic |-> "exited"]
                /\ exited = start_except(first)
    /\ snap = [t \in Threads |-> [volume |-> 0, mute |-> FALSE]]
    /\ disp = NoMessage
    /\ calls = <<>>
    /\ seen = [t \in Threads |-> {<<devVolume, devMute>>}]
    /\ delivered = 0
    /\ executed = 0
    /\ ticks = 0

\* ------------------------------------------------------------------------
\* Device properties of the controller
\* ------------------------------------------------------------------------
\* The volume and mute getters read the mixer (the Stale variant returns
\* what the mixer held when the message arrived).
volume_Stale == IF delivered > 0 THEN disp.startVolume ELSE devVolume
volume == devVolume
mute == devMute

\* What the setters hand to the mixer, given the JSON value assigned (the
\* variants pass another value).
volume_setter_OffByOne(value) == value.i + 1
volume_setter(value) == value.i
mute_setter_Negated(value) == value.i # 1
mute_setter(value) == value.i = 1

\* toggle_mute: `not self.mute` (the variant mutes whatever it read).
toggle_mute_AlwaysMute(cur) == TRUE
toggle_mute(cur) == ~cur

\* The positions of a thread inside update_status.
InStatus == {"status_volume", "status_mute", "publish"}

\* The device states each thread has had before it once the mixer holds
\* (v, m): the dispatch thread, the only writer, starts its update_status
\* after the write; the periodic thread adds the new state to those of its
\* running update_status, if any.
Observe(v, m) ==
    [t \in Threads |->
        IF t = "periodic" /\ pc[t] \in InStatus
        THEN seen[t] \cup {<<v, m>>} ELSE {<<v, m>>}]

\* ------------------------------------------------------------------------
\* Control flow shared by the actions
\* ------------------------------------------------------------------------
\* An exception raised in thread t unwinds to the nearest handler: the
\* except clauses of on_message for the dispatch thread, those of start()
\* for the periodic loop, which the main thread leaves.  frame is the
\* frame of on_message at that moment.
ThrowFrom(t, exc, frame) ==
    IF t = "dispatch"
    THEN /\ disp' = [frame EXCEPT !.exc = exc,
                                  !.outcome = on_message_except(exc)]
         /\ pc' = [pc EXCEPT ![t] =
                      IF on_message_except(exc) = "propagated"
                      THEN "crashed" ELSE "idle"]
         /\ UNCHANGED <<exited, executed>>
    ELSE /\ exited' = start_except(exc)
         /\ pc' = [pc EXCEPT ![t] = "exited"]
         /\ disp' = frame
         /\ UNCHANGED executed
Throw(t, exc) == ThrowFrom(t, exc, disp)

\* update_status returns normally to its caller: the property setter and
\* with it on_message end (dispatch), or the loop goes to sleep (periodic).
ReturnFrom(t, frame) ==
    IF t = "dispatch"
    THEN /\ disp' = [frame EXCEPT !.outcome = "success"]
         /\ pc' = [pc EXCEPT ![t] = "idle"]
         /\ executed' = executed + (IF disp.arg = JStr("pause") THEN 0 ELSE 1)
         /\ UNCHANGED exited
    ELSE /\ pc' = [pc EXCEPT ![t] = "sleep"]
         /\ disp' = frame
         /\ UNCHANGED <<executed, exited>>
Return(t) == ReturnFrom(t, disp)

\* Thread t calls update_status: with a status topic it goes on to read
\* the mixer; a ValueError of the topic is caught and update_status
\* returns at once; any other exception is raised to the caller.
UpdateStatus(t, frame) ==
    IF update_status_topic = "none"
    THEN /\ pc' = [pc EXCEPT ![t] = "status_volume"]
         /\ disp' = frame
         /\ UNCHANGED <<exited, executed>>
    ELSE IF update_status_topic = "return"
    THEN ReturnFrom(t, frame)
    ELSE ThrowFrom(t, update_status_topic, frame)

\* The method handle_message invokes once the payload is decoded and
\* validated.
Method(cmd) ==
    CASE cmd.op = "volume" -> "volume.setter"
      [] cmd.op = "volumeCtrl" /\ cmd.arg.s = "+" -> "volume_up"
      [] cmd.op = "volumeCtrl" /\ cmd.arg.s # "+" -> "volume_down"
      [] cmd.op = "mute" -> "mute.setter"
      [] cmd.op = "toggle" /\ cmd.arg.s = "mute" -> "toggle_mute"
      [] cmd.op = "toggle" /\ cmd.arg.s # "mute" -> "toggle_pause"

\* The first external call of each method.
EntryOf(method) ==
    CASE method = "volume.setter" -> "setvolume"
      [] method \in {"volume_up", "volume_down"} -> "getvolume"
      [] method = "mute.setter" -> "setmute"
      [] method = "toggle_mute" -> "getmute"
      [] method = "toggle_pause" -> "key_press"

\* Where handle_message goes once the payload is decoded and validated.
FirstCall(cmd) == EntryOf(Method(cmd))

\* ------------------------------------------------------------------------
\* Dispatch thread: on_message -> handle_message -> property setters
\* ------------------------------------------------------------------------
\* on_message is called with a payload; handle_message decodes, selects
\* the command and validates it.  A failure ends the call at once.
OnMessage(payloads, limit) ==
    /\ ProcessRuns
    /\ pc["dispatch"] = "idle"
    /\ delivered < limit
    /\ \E p \in payloads :
          LET cmd == handle_message(p)
              frame == [NoMessage EXCEPT
                          !.msg = p, !.op = cmd.op, !.arg = cmd.arg,
                          !.startVolume = devVolume, !.startMute = devMute,
                          !.startKeys = Len(keyLog), !.startPub = Len(pubLog)]
          IN  IF cmd.exc # "none"
              THEN /\ disp' = [frame EXCEPT
                                  !.exc = cmd.exc,
                                  !.outcome = on_message_except(cmd.exc)]
                   /\ pc' = [pc EXCEPT !["dispatch"] =
                                IF on_message_except(cmd.exc) = "propagated"
                                THEN "crashed" ELSE "idle"]
                   /\ calls' = <<>>
              ELSE /\ disp' = [frame EXCEPT !.outcome = "running"]
                   /\ pc' = [pc EXCEPT !["dispatch"] = FirstCall(cmd)]
                   /\ calls' = <<Method(cmd)>>
    /\ delivered' = delivered + 1
    /\ UNCHANGED seen
    /\ UNCHANGED <<build, period, net>>
    /\ UNCHANGED <<cfg, devVolume, devMute, keyLog, pubLog, snap, executed,
                   ticks, exited>>

\* volume_up / volume_down: read the volume and the configured step, and
\* compute the value to set.
GetVolume ==
    /\ ProcessRuns
    /\ pc["dispatch"] = "getvolume"
    /\ \E r \in MixerResults :
          LET step == volume_step(cfg.VOLUME_STEP) IN
          IF r # "ok" THEN Throw("dispatch", r)
          ELSE IF step.exc # "none" THEN Throw("dispatch", step.exc)
          ELSE /\ disp' = [disp EXCEPT
                              !.curVolume = volume,
                              !.step = step.val,
                              !.arg = JInt(IF calls[1] = "volume_up"
                                           THEN volume_up(volume, step.val)
                                           ELSE volume_down(volume,
                                                            step.val))]
               /\ pc' = [pc EXCEPT !["dispatch"] = "setvolume"]
               /\ UNCHANGED <<exited, executed>>
    /\ calls' = Append(calls, "getvolume")
    /\ UNCHANGED seen
    /\ UNCHANGED <<build, period, net>>
    /\ UNCHANGED <<cfg, devVolume, devMute, keyLog, pubLog, snap, delivered,
                   ticks>>

\* volume.setter: audio_mixer.setvolume(value), which takes an int only,
\* then update_status.
SetVolume ==
    /\ ProcessRuns
    /\ pc["dispatch"] = "setvolume"
    /\ \E r \in MixerResults :
          IF disp.arg.t # "int"
          THEN Throw("dispatch", "TypeError") /\ UNCHANGED devVolume
          ELSE IF r # "ok"
          THEN Throw("dispatch", r) /\ UNCHANGED devVolume
          ELSE /\ devVolume' = volume_setter(disp.arg)
               /\ UpdateStatus("dispatch", [disp EXCEPT !.wrote = TRUE])
    /\ calls' = Append(calls, "setvolume")
    /\ seen' = Observe(devVolume', devMute)
    /\ UNCHANGED <<build, period, net>>
    /\ UNCHANGED <<cfg, devMute, keyLog, pubLog, snap, delivered, ticks>>

\* toggle_mute: read the mute switch and negate it.
GetMute ==
    /\ ProcessRuns
    /\ pc["dispatch"] = "getmute"
    /\ \E r \in MixerResults :
          IF r # "ok" THEN Throw("dispatch", r)
          ELSE /\ disp' = [disp EXCEPT !.curMute = mute,
                                       !.arg = JBool(toggle_mute(mute))]
               /\ pc' = [pc EXCEPT !["dispatch"] = "setmute"]
               /\ UNCHANGED <<exited, executed>>
    /\ calls' = Append(calls, "getmute")
    /\ UNCHANGED seen
    /\ UNCHANGED <<build, period, net>>
    /\ UNCHANGED <<cfg, devVolume, devMute, keyLog, pubLog, snap, delivered,
                   ticks>>

\* mute.setter: audio_mixer.setmute(value), then update_status.
SetMute ==
    /\ ProcessRuns
    /\ pc["dispatch"] = "setmute"
    /\ \E r \in MixerResults :
          IF r # "ok" THEN Throw("dispatch", r) /\ UNCHANGED devMute
          ELSE /\ devMute' = mute_setter(disp.arg)
               /\ UpdateStatus("dispatch", [disp EXCEPT !.wrote = TRUE])
    /\ calls' = Append(calls, "setmute")
    /\ seen' = Observe(devVolume, devMute')
    /\ UNCHANGED <<build, period, net>>
    /\ UNCHANGED <<cfg, devVolume, keyLog, pubLog, snap, delivered, ticks>>

\* toggle_pause: keyboard.press(Key.space) ...
KeyPress ==
    /\ ProcessRuns
    /\ pc["dispatch"] = "key_press"
    /\ \E r \in KeyboardResults :
          IF r # "ok" THEN Throw("dispatch", r) /\ UNCHANGED keyLog
          ELSE /\ keyLog' = Append(keyLog, "press")
               /\ disp' = [disp EXCEPT !.wrote = TRUE]
               /\ pc' = [pc EXCEPT !["dispatch"] = "key_release"]
               /\ UNCHANGED <<exited, executed>>
    /\ calls' = Append(calls, "press")
    /\ UNCHANGED seen
    /\ UNCHANGED <<build, period, net>>
    /\ UNCHANGED <<cfg, devVolume, devMute, pubLog, snap, delivered, ticks>>

\* ... then keyboard.release(Key.space); handle_message returns.
\* toggle_pause has no update_status call (the Reports variant adds one).
toggle_pause_Reports == "status_volume"
toggle_pause_end == "idle"
KeyRelease ==
    /\ ProcessRuns
    /\ pc["dispatch"] = "key_release"
    /\ \E r \in KeyboardResults :
          IF r # "ok" THEN Throw("dispatch", r) /\ UNCHANGED keyLog
          ELSE /\ keyLog' = Append(keyLog, "release")
               /\ disp' = [disp EXCEPT
                              !.outcome = IF toggle_pause_end = "idle"
                                          THEN "success" ELSE @]
               /\ pc' = [pc EXCEPT !["dispatch"] = toggle_pause_end]
               /\ UNCHANGED <<exited, executed>>
    /\ calls' = Append(calls, "release")
    /\ UNCHANGED seen
    /\ UNCHANGED <<build, period, net>>
    /\ UNCHANGED <<cfg, devVolume, devMute, pubLog, snap, delivered, ticks>>

\* ------------------------------------------------------------------------
\* Status Reporter: update_status, run by either thread
\* ------------------------------------------------------------------------
\* status: {"volume": self.volume, ...
StatusVolume(t) ==
    /\ ProcessRuns
    /\ pc[t] = "status_volume"
    /\ \E r \in MixerResults :
          IF r # "ok" THEN Throw(t, r) /\ UNCHANGED snap
          ELSE /\ snap' = [snap EXCEPT ![t].volume = volume]
               /\ pc' = [pc EXCEPT ![t] = "status_mute"]
               /\ UNCHANGED <<disp, exited, executed>>
    /\ calls' = IF t = "dispatch" THEN Append(calls, "getvolume") ELSE calls
    /\ UNCHANGED seen
    /\ UNCHANGED <<build, period, net>>
    /\ UNCHANGED <<cfg, devVolume, devMute, keyLog, pubLog, delivered, ticks>>

\* ... "mute": self.mute}
StatusMute(t) ==
    /\ ProcessRuns
    /\ pc[t] = "status_mute"
    /\ \E r \in MixerResults :
          IF r # "ok" THEN Throw(t, r) /\ UNCHANGED snap
          ELSE /\ snap' = [snap EXCEPT ![t].mute = mute]
               /\ pc' = [pc EXCEPT ![t] = "publish"]
               /\ UNCHANGED <<disp, exited, executed>>
    /\ calls' = IF t = "dispatch" THEN Append(calls, "getmute") ELSE calls
    /\ UNCHANGED seen
    /\ UNCHANGED <<build, period, net>>
    /\ UNCHANGED <<cfg, devVolume, devMute, keyLog, pubLog, delivered, ticks>>

\* mqttc.publish(status_topic, json.dumps(status), qos=0, retain=False):
\* accepted, rejected (rc # MQTT_ERR_SUCCESS) or ValueError; update_status
\* logs the result and returns.
Publish(t) ==
    /\ ProcessRuns
    /\ pc[t] = "publish"
    /\ \E r \in PublishResults :
          /\ pubLog' = Append(pubLog, [by |-> t, volume |-> snap[t].volume,
                                       mute |-> snap[t].mute, result |-> r])
          /\ IF r = "ValueError" /\ ~update_status_except(r)
             THEN Throw(t, r)
             ELSE Return(t)
    /\ calls' = IF t = "dispatch" THEN Append(calls, "publish") ELSE calls
    /\ seen' = [seen EXCEPT ![t] = {<<devVolume, devMute>>}]
    /\ UNCHANGED <<build, period, net>>
    /\ UNCHANGED <<cfg, devVolume, devMute, keyLog, snap, delivered, ticks>>

\* ------------------------------------------------------------------------
\* Periodic loop of start()
\* ------------------------------------------------------------------------
\* time.sleep(self.config.status_update_delay), then the next
\* update_status; an exception of time.sleep reaches the except clauses of
\* start().
Sleep ==
    /\ ProcessRuns
    /\ pc["periodic"] = "sleep"
    /\ \E r \in time_sleep(period) :
          IF r = "none"
          THEN /\ ticks < MaxTicks
               /\ ticks' = ticks + 1
               /\ UpdateStatus("periodic", disp)
          ELSE /\ Throw("periodic", r)
               /\ UNCHANGED ticks
    /\ UNCHANGED seen
    /\ UNCHANGED <<build, period, net>>
    /\ UNCHANGED <<cfg, devVolume, devMute, keyLog, pubLog, snap, calls,
                   delivered>>

\* ------------------------------------------------------------------------
\* Disconnection
\* ------------------------------------------------------------------------
\* on_disconnect(rc): sys.exit(0) for MQTT_ERR_SUCCESS, sys.exit(1) else.
DisconnectCodes == {"MQTT_ERR_SUCCESS", "MQTT_ERR_CONN_LOST"}
on_disconnect(rc) ==
    IF rc = "MQTT_ERR_SUCCESS" THEN "sys.exit(0)" ELSE "sys.exit(1)"

\* The network loop calls on_disconnect between two messages; sys.exit
\* raises SystemExit in the thread that runs the loop.  Under loop_forever
\* that is the main thread: the exception leaves start(), whose except
\* clauses do not match it, and the process exits.  Under loop_start it is
\* the background thread, which ends; the main thread is not affected.
OnDisconnect ==
    /\ ProcessRuns
    /\ pc["dispatch"] = "idle"
    /\ \E rc \in DisconnectCodes :
          IF pc["periodic"] = "loop_forever"
          THEN /\ exited' = IF start_except("SystemExit") = "propagated"
                            THEN on_disconnect(rc)
                            ELSE start_except("SystemExit")
               /\ pc' = [dispatch |-> "disconnected", periodic |-> "exited"]
          ELSE /\ pc' = [pc EXCEPT !["dispatch"] = "disconnected"]
               /\ UNCHANGED exited
    /\ UNCHANGED <<build, period, net>>
    /\ UNCHANGED <<cfg, devVolume, devMute, keyLog, pubLog, snap, disp, calls,
                   seen, delivered, executed, ticks>>

\* ------------------------------------------------------------------------
\* End of the process
\* ------------------------------------------------------------------------
\* Once the main thread has left start(), by sys.exit or by an exception,
\* the finally clause of the script calls stop(): mqttc.disconnect().
Stop ==
    /\ pc["periodic"] = "exited"
    /\ pc' = [pc EXCEPT !["periodic"] = "stopped"]
    /\ UNCHANGED <<build, period, net>>
    /\ UNCHANGED <<cfg, devVolume, devMute, keyLog, pubLog, snap, disp, calls,
                   seen, delivered, executed, ticks, exited>>

\* The script ends and the interpreter finalizes: the process ends, with
\* it the network thread wherever it is.
Exit ==
    /\ pc["periodic"] = "stopped"
    /\ pc' = [pc EXCEPT !["periodic"] = "ended"]
    /\ UNCHANGED <<build, period, net>>
    /\ UNCHANGED <<cfg, devVolume, devMute, keyLog, pubLog, snap, disp, calls,
                   seen, delivered, executed, ticks, exited>>

\* ------------------------------------------------------------------------
\* Specifications
\* ------------------------------------------------------------------------
\* The builds a specification ranges over are those its inputs tell apart:
\* the drafts where payloads hold floats, the digit limits where payloads
\* or the configuration hold numbers longer than the limit, the Unicode
\* versions where the configuration holds digits of scripts that ASCII and
\* Unicode 9.0 do not have (UNICODE elsewhere).
UNICODE == 14
DefaultBuild == Build("draft6", MAX_STR_DIGITS, UNICODE)
Builds == {Build(d, m, UNICODE) : d \in Drafts, m \in DigitLimits}
DraftBuilds == {Build(d, MAX_STR_DIGITS, UNICODE) : d \in Drafts}
LimitBuilds == {Build("draft6", m, UNICODE) : m \in DigitLimits}
UnicodeVersions == {9, 11, 12, 13, 14, 15, 16}
UnicodeBuilds == {Build("draft6", 0, u) : u \in UnicodeVersions}

\* A decimal string of zeros zeros and the digit 5.
LongFive(zeros) == [k \in 1..(zeros + 1) |-> IF k <= zeros THEN "0" ELSE "5"]

\* Spec: periodic reporting disabled (STATUS_UPDATE_DELAY absent or 0), so
\* loop_forever dispatches the messages one after the other; or start()
\* does not reach a loop: the property rejects STATUS_UPDATE_DELAY, the
\* broker, the port, the credentials or the control topic, or the
\* connection or the subscription fails.  The device starts unmuted; a
\* mute command mutes it.
RejectedDelays ==
    {SetTo(0 - 1), SetToStr(<<"-", "1">>), SetToStr(<<"a", "b", "c">>),
     SetToStr(<<>>), SetToNone}
SerialConfigs ==
    {Config(NotSet, NotSet), Config(SetTo(25), SetTo(0))}
        \cup {Config(NotSet, d) : d \in RejectedDelays}
\* What the script's from_object(Config) stores when no variable of the
\* environment is set: every MQTT_ key holds None.
Unconfigured ==
    [MQTT_BROKER_ADDR |-> SetToNone, MQTT_BROKER_PORT |-> SetToNone,
     MQTT_BROKER_USER |-> SetToNone, MQTT_BROKER_PWD |-> SetToNone,
     MQTT_CONTROL_TOPIC |-> SetToNone, MQTT_STATUS_TOPIC |-> SetToNone,
     VOLUME_STEP |-> NotSet, STATUS_UPDATE_DELAY |-> NotSet]
\* A complete configuration; configurations with one setting of the
\* connection missing, None, empty or of another type; and configurations
\* with credentials.
StartConfigs ==
    {Config(NotSet, NotSet), Unconfigured}
        \cup {With(Config(NotSet, NotSet), "MQTT_BROKER_ADDR", v) :
                 v \in {NotSet, SetToNone, SetToStr(<<>>), SetTo(1)}}
        \cup {With(Config(NotSet, NotSet), "MQTT_BROKER_PORT", v) :
                 v \in {NotSet, SetToNone, SetToStr(<<"a">>)}}
        \cup {With(Config(NotSet, NotSet), "MQTT_CONTROL_TOPIC", v) :
                 v \in {NotSet, SetToNone, SetToStr(<<>>)}}
        \cup {With(With(Config(NotSet, NotSet), "MQTT_BROKER_USER", u),
                    "MQTT_BROKER_PWD", w) :
                 u \in {SetToNone, SetToStr(<<"u">>)},
                 w \in {NotSet, SetToNone, SetToStr(<<"w">>)}}
        \cup {With(With(Config(NotSet, NotSet), "MQTT_BROKER_USER",
                         SetToStr(<<>>)), "MQTT_BROKER_PWD", SetToNone)}
Init ==
    \/ InitWith(Builds, SerialConfigs, {Connected}, {5, 95}, {FALSE})
    \/ InitWith({DefaultBuild}, StartConfigs, Nets, {5}, {FALSE})
Next ==
    \/ OnMessage(Payloads, MaxMsgs)
    \/ GetVolume
    \/ SetVolume
    \/ GetMute
    \/ SetMute
    \/ KeyPress
    \/ KeyRelease
    \/ StatusVolume("dispatch")
    \/ StatusMute("dispatch")
    \/ Publish("dispatch")
    \/ Stop
    \/ Exit
Spec == Init /\ [][Next]_vars

\* SpecKeys: payloads with several recognized keys, dispatched one after
\* the other.  The first key of such a payload is never toggle, so the
\* mute switch is not read and no key is pressed.
InitKeys ==
    InitWith(Builds, {Config(NotSet, NotSet)}, {Connected}, {5}, {FALSE})
NextKeys ==
    \/ OnMessage(SeveralKeysPayloads, MaxMsgs)
    \/ GetVolume
    \/ SetVolume
    \/ SetMute
    \/ StatusVolume("dispatch")
    \/ StatusMute("dispatch")
    \/ Publish("dispatch")
SpecKeys == InitKeys /\ [][NextKeys]_vars

\* SpecPeriodic: STATUS_UPDATE_DELAY is positive; the main thread reports
\* the status periodically while the network thread dispatches messages,
\* unless the connection or the subscription fails.
PeriodicConfigs == {Config(NotSet, SetTo(30))}
InitPeriodic ==
    InitWith({DefaultBuild}, PeriodicConfigs, Nets, {5, 95}, {FALSE})
NextPeriodic ==
    \/ OnMessage(CommandPayloads, PeriodicMsgs)
    \/ GetVolume
    \/ SetVolume
    \/ GetMute
    \/ SetMute
    \/ KeyPress
    \/ KeyRelease
    \/ StatusVolume("dispatch")
    \/ StatusMute("dispatch")
    \/ Publish("dispatch")
    \/ StatusVolume("periodic")
    \/ StatusMute("periodic")
    \/ Publish("periodic")
    \/ Sleep
    \/ Stop
    \/ Exit
SpecPeriodic == InitPeriodic /\ [][NextPeriodic]_vars

\* SpecStep: every volume and every valid step, volumeCtrl messages only.
StepConfigs == {Config(SetTo(s), NotSet) : s \in STEP_MIN..STEP_MAX}
InitStep ==
    InitWith({DefaultBuild}, StepConfigs, {Connected}, VOLUME_MIN..VOLUME_MAX,
             {FALSE})
NextStep ==
    \/ OnMessage(StepPayloads, StepMsgs)
    \/ GetVolume
    \/ SetVolume
    \/ StatusVolume("dispatch")
    \/ StatusMute("dispatch")
    \/ Publish("dispatch")
SpecStep == InitStep /\ [][NextStep]_vars

\* SpecSetVolume: every {"volume": v} with v an integer of 0..100, from
\* low and high volumes, muted and not.
SetVolumePayloads ==
    {Obj(One("volume", JInt(v))) : v \in VOLUME_MIN..VOLUME_MAX}
InitSetVolume ==
    InitWith({DefaultBuild}, {Config(NotSet, NotSet)}, {Connected}, {5, 95},
             BOOLEAN)
NextSetVolume ==
    \/ OnMessage(SetVolumePayloads, StepMsgs)
    \/ SetVolume
    \/ StatusVolume("dispatch")
    \/ StatusMute("dispatch")
    \/ Publish("dispatch")
SpecSetVolume == InitSetVolume /\ [][NextSetVolume]_vars

\* SpecMute: {"mute": true} and {"mute": false} in any order.
MutePayloads == {Obj(One("mute", JBool(b))) : b \in BOOLEAN}
InitMute ==
    InitWith({DefaultBuild}, {Config(NotSet, NotSet)}, {Connected}, {5, 95},
             BOOLEAN)
NextMute ==
    \/ OnMessage(MutePayloads, MaxMsgs)
    \/ SetMute
    \/ StatusVolume("dispatch")
    \/ StatusMute("dispatch")
    \/ Publish("dispatch")
SpecMute == InitMute /\ [][NextMute]_vars

\* SpecConfig: the settings the running controller reads.  VOLUME_STEP
\* holds any raw value (integers and their decimal strings inside and
\* outside the range, other strings, None, or nothing), also written in
\* the digits of scripts that only some Unicode versions have;
\* MQTT_STATUS_TOPIC is missing, None or empty, with and without periodic
\* reporting.  volumeCtrl messages make the controller read both
\* properties.
RawSteps == (STEP_MIN - 2)..(STEP_MAX + 1)
RawStepValues ==
    {NotSet, SetToNone} \cup {SetTo(n) : n \in RawSteps}
        \cup {SetToStr(str(n)) : n \in {m \in RawSteps : m >= 0}}
        \cup {SetToStr(<<>>), SetToStr(<<"-", "1">>),
              SetToStr(<<" ", "7", " ">>), SetToStr(<<"5", ".", "5">>),
              SetToStr(<<"a", "b", "c">>), SetToStr(<<"\t", "7", "\n">>),
              SetToStr(<<"U+00A0", "7">>), SetToStr(<<"1", "_", "0">>),
              SetToStr(<<"1", "_", "_", "0">>), SetToStr(<<"_", "1">>),
              SetToStr(<<"+", "7">>), SetToStr(<<"U+0661", "U+0660">>),
              SetToStr(<<"U+0967", "0", "1">>),
              SetToStr(LongFive(MAX_STR_DIGITS - 1)),
              SetToStr(LongFive(MAX_STR_DIGITS))}
\* Five in Masaram Gondi (Unicode 10.0), Hanifi Rohingya (11.0), Wancho
\* (12.0), Dives Akuru (13.0), Tangsa (14.0), Kawi (15.0) and Garay (16.0).
ScriptSteps ==
    {SetToStr(<<ch>>) :
        ch \in {"U+11D55", "U+10D35", "U+1E2F5", "U+11955", "U+16AC5",
                "U+11F55", "U+10D45"}}
TopicValues == {NotSet, SetToNone, SetToStr(<<>>)}
TopicConfigs ==
    {With(Config(NotSet, d), "MQTT_STATUS_TOPIC", v) :
        d \in {NotSet, SetTo(30)}, v \in TopicValues}
InitConfig ==
    \/ InitWith(LimitBuilds, {Config(s, NotSet) : s \in RawStepValues},
                {Connected}, {5, 95}, {FALSE})
    \/ InitWith(UnicodeBuilds, {Config(s, NotSet) : s \in ScriptSteps},
                {Connected}, {5}, {FALSE})
    \/ InitWith({DefaultBuild}, TopicConfigs, {Connected}, {5}, {FALSE})
NextConfig ==
    \/ OnMessage(StepPayloads, StepMsgs)
    \/ GetVolume
    \/ SetVolume
    \/ StatusVolume("dispatch")
    \/ StatusMute("dispatch")
    \/ Publish("dispatch")
    \/ Sleep
    \/ Stop
    \/ Exit
SpecConfig == InitConfig /\ [][NextConfig]_vars

\* SpecToggle: {"toggle": "mute"} messages one after the other.
TogglePayloads == {Obj(One("toggle", JStr("mute")))}
InitToggle ==
    InitWith({DefaultBuild}, {Config(NotSet, NotSet)}, {Connected}, {5, 95},
             BOOLEAN)
NextToggle ==
    \/ OnMessage(TogglePayloads, MaxMsgs)
    \/ GetMute
    \/ SetMute
    \/ StatusVolume("dispatch")
    \/ StatusMute("dispatch")
    \/ Publish("dispatch")
SpecToggle == InitToggle /\ [][NextToggle]_vars

\* SpecMachine: the six commands and one payload of each failure class,
\* dispatched by loop_forever or, with periodic reporting, by the network
\* thread beside the reporter.  on_message runs in the network loop, which
\* goes on with the handling of a message until the callback returns, as
\* long as the process runs.
MachinePayloads ==
    CommandPayloads
        \cup {BadUtf8, BadJson, Obj(One("volume", JInt(101))), Scalar("int"),
              ObjWith(NoFields, JDeep)}
\* The delays: none, 30, and two that time.sleep can fail on: 5000000000
\* (some 158 years) and 10^22.
MachineConfigs ==
    {Config(NotSet, NotSet), Config(NotSet, SetTo(30)),
     Config(NotSet, SetToStr([k \in 1..10 |-> IF k = 1 THEN "5" ELSE "0"])),
     Config(NotSet, SetToStr([k \in 1..23 |-> IF k = 1 THEN "1" ELSE "0"]))}
InitMachine ==
    InitWith({DefaultBuild}, MachineConfigs, {Connected}, {5, 95}, {FALSE})
Handling ==
    \/ GetVolume
    \/ SetVolume
    \/ GetMute
    \/ SetMute
    \/ KeyPress
    \/ KeyRelease
    \/ StatusVolume("dispatch")
    \/ StatusMute("dispatch")
    \/ Publish("dispatch")
Reporter ==
    \/ StatusVolume("periodic")
    \/ StatusMute("periodic")
    \/ Publish("periodic")
    \/ Sleep
NextMachine ==
    \/ OnMessage(MachinePayloads, PeriodicMsgs)
    \/ Handling
    \/ Reporter
    \/ Stop
    \/ Exit
SpecMachine == InitMachine /\ [][NextMachine]_vars /\ WF_vars(Handling)

\* SpecSnapshot: periodic reporting while a volume command and a mute
\* command are dispatched.
SnapshotPayloads ==
    {Obj(One("volume", JInt(50))), Obj(One("mute", JBool(TRUE)))}
InitSnapshot ==
    InitWith({DefaultBuild}, PeriodicConfigs, {Connected}, {5}, {FALSE})
NextSnapshot ==
    \/ OnMessage(SnapshotPayloads, SnapshotMsgs)
    \/ SetVolume
    \/ SetMute
    \/ StatusVolume("dispatch")
    \/ StatusMute("dispatch")
    \/ Publish("dispatch")
    \/ StatusVolume("periodic")
    \/ StatusMute("periodic")
    \/ Publish("periodic")
    \/ Sleep
    \/ Stop
    \/ Exit
SpecSnapshot == InitSnapshot /\ [][NextSnapshot]_vars

\* SpecDisconnect: the broker connection ends, with periodic reporting
\* disabled and enabled.
DisconnectConfigs ==
    {Config(NotSet, NotSet), Config(NotSet, SetTo(30)),
     Config(NotSet, SetToStr(LongFive(MAX_STR_DIGITS)))}
DisconnectPayloads == {Obj(One("volume", JInt(50)))}
InitDisconnect ==
    InitWith(LimitBuilds, DisconnectConfigs, {Connected}, {5, 95}, {FALSE})
NextDisconnect ==
    \/ OnMessage(DisconnectPayloads, PeriodicMsgs)
    \/ SetVolume
    \/ StatusVolume("dispatch")
    \/ StatusMute("dispatch")
    \/ Publish("dispatch")
    \/ StatusVolume("periodic")
    \/ StatusMute("periodic")
    \/ Publish("periodic")
    \/ Sleep
    \/ OnDisconnect
    \/ Stop
    \/ Exit
SpecDisconnect == InitDisconnect /\ [][NextDisconnect]_vars

\* ------------------------------------------------------------------------
\* Vocabulary of the properties
\* ------------------------------------------------------------------------
Idle == pc["dispatch"] = "idle" /\ delivered > 0
Failures ==
    {"EncodingError", "MalformedJsonError", "ValidationError",
     "UnrecognizedCommandError", "UnexpectedError"}
DeviceAsAtStart ==
    /\ devVolume = disp.startVolume
    /\ devMute = disp.startMute
    /\ Len(keyLog) = disp.startKeys
PublishedSinceStart == Len(pubLog) - disp.startPub

\* The recognized keys of an object payload, and the first in priority order.
PresentKeys(p) == {k \in Keys : p.top = "object" /\ p.f[k].t # "absent"}
FirstKey(p) ==
    IF "volume" \in PresentKeys(p) THEN "volume"
    ELSE IF "volumeCtrl" \in PresentKeys(p) THEN "volumeCtrl"
    ELSE IF "mute" \in PresentKeys(p) THEN "mute"
    ELSE "toggle"

\* The value shapes of the schema table: an integer literal in 0..100, "+"
\* or "-", a boolean literal, "mute" or "pause".
ShapeOk(k, v) ==
    CASE k = "volume" -> v.t = "int" /\ v.i >= 0 /\ v.i <= 100
      [] k = "volumeCtrl" -> v.t = "str" /\ v.s \in {"+", "-"}
      [] k = "mute" -> v.t = "bool"
      [] k = "toggle" -> v.t = "str" /\ v.s \in {"mute", "pause"}

IsPause(p) == FirstKey(p) = "toggle" /\ p.f["toggle"] = JStr("pause")

\* ------------------------------------------------------------------------
\* C1
\* ------------------------------------------------------------------------
\* C1 (as stated): on_message never propagates an exception, and a message
\* that failed leaves nothing behind: the volume and the mute switch, which
\* the following message reads, are as they were when it was delivered, so
\* that message is processed as if the failing one had never been delivered.
C1_FailedMessageLeavesNoTrace ==
    /\ disp.outcome # "propagated"
    /\ (Idle /\ disp.outcome \in Failures) =>
           (devVolume = disp.startVolume /\ devMute = disp.startMute)

\* C1 (amended): on_message never propagates an exception, whatever the
\* payload and whichever of decoding, validation, the device or the publish
\* call fails: it returns with a classified outcome and the dispatcher is
\* idle again.  A message that failed before any of its device writes
\* succeeded leaves the device and the keyboard as it found them; a failure
\* after the write (the status read, the key release) keeps the write.
C1_NeverPropagates ==
    /\ disp.outcome # "propagated"
    /\ pc["dispatch"] # "crashed"
    /\ delivered > 0 => exited = "no"
    /\ (Idle /\ disp.outcome \in Failures /\ ~disp.wrote) => DeviceAsAtStart
    /\ Idle => disp.outcome \in Failures \cup {"success"}

\* A device failure was caught and classified after the command's write,
\* and a second message has been dispatched successfully after a first one
\* that failed.
C1_Witness ==
    /\ Idle
    /\ delivered = 2
    /\ executed = 1
    /\ keyLog = <<>>
    /\ disp.outcome = "success"
    /\ disp.op = "volumeCtrl"
C1_WitnessFailure ==
    Idle /\ disp.outcome = "UnexpectedError" /\ disp.wrote

\* ------------------------------------------------------------------------
\* C2
\* ------------------------------------------------------------------------
\* A payload that does not decode to a command: not UTF-8, not JSON, not an
\* object, an object without a recognized key, or one whose first
\* recognized key carries a value outside the schema table.
FailsDecoding(p) ==
    \/ p.kind # "json"
    \/ p.top # "object"
    \/ PresentKeys(p) = {}
    \/ ~ShapeOk(FirstKey(p), p.f[FirstKey(p)])

\* C2: the dispatch of a payload that fails decoding performs no device
\* write and no publish: volume, mute, keyboard and the number of publish
\* calls stay as they were when the message was delivered.
C2_DecodeFailureHasNoEffect ==
    (delivered > 0 /\ FailsDecoding(disp.msg)) =>
        /\ DeviceAsAtStart
        /\ PublishedSinceStart = 0
        /\ ~disp.wrote

C2_Witness ==
    /\ Idle
    /\ disp.msg = Obj(One("volume", JInt(101)))
    /\ disp.outcome = "ValidationError"
    /\ devVolume = 95

\* ------------------------------------------------------------------------
\* C3
\* ------------------------------------------------------------------------
\* What the command of key k does not touch.
OthersUntouched(k, v) ==
    CASE k \in {"volume", "volumeCtrl"} ->
            devMute = disp.startMute /\ Len(keyLog) = disp.startKeys
      [] k = "mute" ->
            devVolume = disp.startVolume /\ Len(keyLog) = disp.startKeys
      [] k = "toggle" /\ v.s = "mute" ->
            devVolume = disp.startVolume /\ Len(keyLog) = disp.startKeys
      [] k = "toggle" /\ v.s # "mute" ->
            devVolume = disp.startVolume /\ devMute = disp.startMute

\* C3: of a payload with several recognized keys only the first in the
\* order volume, volumeCtrl, mute, toggle is validated and executed: when
\* its value is valid (an integer in 0..100 for volume, "+" or "-" for
\* volumeCtrl, a boolean for mute, "mute" or "pause" for toggle) the
\* message is dispatched as that command whatever the other keys hold, and
\* what the other keys govern is untouched; when it is not the message
\* fails with ValidationError and nothing is done.
C3_KeyPriority ==
    (delivered > 0 /\ Cardinality(PresentKeys(disp.msg)) > 1) =>
        LET k == FirstKey(disp.msg)
            v == disp.msg.f[k]
        IN  IF ShapeOk(k, v)
            THEN /\ disp.op = k
                 /\ disp.outcome \notin
                        {"EncodingError", "MalformedJsonError",
                         "ValidationError", "UnrecognizedCommandError"}
                 /\ OthersUntouched(k, v)
                 /\ (k = "volume" /\ disp.wrote) => devVolume = v.i
                 /\ (k = "mute" /\ disp.wrote) => devMute = (v.i = 1)
                 /\ (Idle /\ disp.outcome = "success") =>
                        (disp.wrote /\ PublishedSinceStart =
                            (IF k = "toggle" /\ v.s = "pause" THEN 0 ELSE 1))
            ELSE /\ disp.outcome = "ValidationError"
                 /\ DeviceAsAtStart
                 /\ PublishedSinceStart = 0

\* {"volume": 50, "mute": "bad"} succeeded and set the volume only.
C3_Witness ==
    /\ Idle
    /\ disp.msg = Obj(Two("volume", JInt(50), "mute", JStr("bad")))
    /\ disp.outcome = "success"
    /\ devVolume = 50
    /\ devMute = disp.startMute
\* {"volume": 101, "mute": true} failed although mute is valid.
C3_WitnessInvalidFirst ==
    /\ Idle
    /\ disp.msg = Obj(Two("volume", JInt(101), "mute", JBool(TRUE)))
    /\ disp.outcome = "ValidationError"

\* ------------------------------------------------------------------------
\* C4
\* ------------------------------------------------------------------------
\* C4: decoding {"volume": v} succeeds if and only if v is an integer
\* literal in 0..100; every other value (out of range, a float with or
\* without fractional part, a numeric string, a boolean, null) ends as
\* ValidationError and the device volume is never set.
C4_VolumeIntegerInRangeOnly ==
    (Idle /\ PresentKeys(disp.msg) = {"volume"}) =>
        LET v == disp.msg.f["volume"]
        IN  IF v.t = "int" /\ v.i >= 0 /\ v.i <= 100
            THEN disp.outcome # "ValidationError"
            ELSE /\ disp.outcome = "ValidationError"
                 /\ devVolume = disp.startVolume

\* ------------------------------------------------------------------------
\* C5
\* ------------------------------------------------------------------------
\* C5: a payload that is valid JSON but not a JSON object always ends the
\* dispatch as MalformedJsonError, and no action executes.
C5_NonObjectIsMalformedJson ==
    (Idle /\ disp.msg.kind = "json" /\ disp.msg.top # "object") =>
        /\ disp.outcome = "MalformedJsonError"
        /\ DeviceAsAtStart
        /\ PublishedSinceStart = 0

\* ------------------------------------------------------------------------
\* C6
\* ------------------------------------------------------------------------
\* C6: with current volume c and configured step s, once StepVolume(Up) has
\* written, the device volume is min(c + s, 100); once StepVolume(Down) has
\* written, it is max(c - s, 0).
C6_StepClamping ==
    (disp.op = "volumeCtrl" /\ disp.wrote) =>
        LET c == disp.startVolume
            s == cfg.VOLUME_STEP.val
        IN  /\ disp.msg.f["volumeCtrl"].s = "+" =>
                  devVolume = (IF c + s > 100 THEN 100 ELSE c + s)
            /\ disp.msg.f["volumeCtrl"].s = "-" =>
                  devVolume = (IF c - s < 0 THEN 0 ELSE c - s)

\* Volume 95, step 10, up: the volume is 100.
C6_Witness ==
    /\ disp.op = "volumeCtrl"
    /\ disp.wrote
    /\ disp.msg.f["volumeCtrl"].s = "+"
    /\ disp.startVolume = 95
    /\ cfg.VOLUME_STEP.val = 10
    /\ devVolume = 100

\* ------------------------------------------------------------------------
\* C7
\* ------------------------------------------------------------------------
\* C7: Toggle(Pause) never publishes a status; every other command whose
\* dispatch succeeds makes exactly one publish attempt; with periodic
\* reporting disabled the number of publish attempts is the number of
\* successfully dispatched commands other than pause.
C7_OnePublishPerStatusCommand ==
    /\ (delivered > 0 /\ IsPause(disp.msg)) => PublishedSinceStart = 0
    /\ (Idle /\ disp.outcome = "success" /\ ~IsPause(disp.msg)) =>
           PublishedSinceStart = 1
    /\ (Idle \/ delivered = 0) => Len(pubLog) = executed

\* Two messages succeeded, a pause and a status command: one publish.
C7_Witness ==
    /\ Idle
    /\ delivered = 2
    /\ disp.outcome = "success"
    /\ keyLog = <<"press", "release">>
    /\ executed = 1
    /\ Len(pubLog) = 1

\* ------------------------------------------------------------------------
\* C8
\* ------------------------------------------------------------------------
\* The dispatch is between a device read and the write that depends on it,
\* or between its write and the end of its own status read.
DispatchInCriticalSection ==
    \/ disp.op = "volumeCtrl" /\ pc["dispatch"] = "setvolume"
    \/ disp.op = "toggle" /\ pc["dispatch"] = "setmute"
    \/ pc["dispatch"] \in {"status_volume", "status_mute"}
PeriodicReads ==
    /\ pc["periodic"] \in {"status_volume", "status_mute"}
    /\ pc'["periodic"] # pc["periodic"]
    /\ exited' = "no"

\* C8: the periodic reporter never reads the volume or the mute switch
\* while a dispatch is in its critical section.
C8_MutualExclusion ==
    [][PeriodicReads => ~DispatchInCriticalSection]_vars

\* ------------------------------------------------------------------------
\* C9
\* ------------------------------------------------------------------------
\* C9: no device error and no rejected publish terminates the process,
\* neither in a dispatch nor in the periodic reporter: once start() has
\* connected and subscribed, the main thread stays in start() and no
\* exception leaves on_message.
C9_NoErrorTerminates ==
    pc["dispatch"] # "not_started" =>
        exited = "no" /\ pc["dispatch"] # "crashed"

\* ------------------------------------------------------------------------
\* C10
\* ------------------------------------------------------------------------
LastPublish == pubLog[Len(pubLog)]

\* C10: when the publish of a command's status report is rejected or
\* raises ValueError, the dispatch still ends as success, the value the
\* command wrote is still on the device, and there was exactly one publish
\* attempt.
C10_RejectedPublishIsNotAFailure ==
    (Idle /\ PublishedSinceStart > 0
          /\ LastPublish.result # "MQTT_ERR_SUCCESS") =>
        /\ disp.outcome = "success"
        /\ PublishedSinceStart = 1
        /\ disp.wrote
        /\ disp.op = "volume" => devVolume = disp.msg.f["volume"].i
        /\ disp.op = "volumeCtrl" => devVolume = disp.arg.i
        /\ disp.op = "mute" => devMute = (disp.msg.f["mute"].i = 1)
        /\ disp.op = "toggle" => devMute = ~disp.startMute

C10_Witness ==
    /\ Idle
    /\ disp.op = "volume"
    /\ PublishedSinceStart = 1
    /\ LastPublish.result = "MQTT_ERR_NO_CONN"
    /\ disp.outcome = "success"
    /\ devVolume = 50
    /\ disp.startVolume = 5
C10_WitnessValueError ==
    /\ Idle
    /\ disp.op = "toggle"
    /\ PublishedSinceStart = 1
    /\ LastPublish.result = "ValueError"
    /\ disp.outcome = "success"


\* ------------------------------------------------------------------------
\* C11
\* ------------------------------------------------------------------------
\* C11: for every integer v in 0..100 and every prior device state, a
\* dispatched {"volume": v} is decoded as the volume command with value v;
\* once its write is done the device volume is v, the volume read back by
\* the status report is v, and the device mute is as before the message.
C11_SetVolumeRoundTrip ==
    \A v \in VOLUME_MIN..VOLUME_MAX :
        (delivered > 0 /\ disp.msg = Obj(One("volume", JInt(v)))) =>
            /\ disp.op = "volume"
            /\ calls # <<>> /\ calls[1] = "volume.setter"
            /\ devMute = disp.startMute
            /\ disp.wrote =>
                  /\ devVolume = v
                  /\ pc["dispatch"] \in {"status_mute", "publish"} =>
                        snap["dispatch"].volume = v
                  /\ PublishedSinceStart > 0 => LastPublish.volume = v
            /\ ~disp.wrote => devVolume = disp.startVolume

\* A volume command changed the volume of a muted device and its status
\* report went out.
C11_Witness ==
    /\ Idle
    /\ disp.msg = Obj(One("volume", JInt(100)))
    /\ disp.outcome = "success"
    /\ disp.startVolume = 5
    /\ disp.startMute
    /\ devVolume = 100
    /\ devMute
    /\ PublishedSinceStart = 1

\* ------------------------------------------------------------------------
\* C12
\* ------------------------------------------------------------------------
\* How many times the current dispatch made the call named c.
CallCount(c) == Cardinality({i \in DOMAIN calls : calls[i] = c})

\* C12: for every boolean b and every prior device state, a dispatched
\* {"mute": b} sets the mute switch to b without reading it and leaves the
\* volume alone; on a device whose mute is already b (as after a first
\* {"mute": b}) the switch stays b at every step of the dispatch.
C12_SetMuteIdempotent ==
    \A b \in BOOLEAN :
        (delivered > 0 /\ disp.msg = Obj(One("mute", JBool(b)))) =>
            /\ disp.op = "mute"
            /\ calls # <<>> /\ calls[1] = "mute.setter"
            /\ Len(calls) > 1 => calls[2] = "setmute"
            /\ CallCount("setmute") <= 1
            /\ devVolume = disp.startVolume
            /\ disp.wrote => devMute = b
            /\ ~disp.wrote => devMute = disp.startMute
            /\ disp.startMute = b => devMute = b

\* {"mute": true} was executed twice in a row: both status reports went out
\* with mute = true and the device is muted.
C12_Witness ==
    /\ Idle
    /\ delivered = 2
    /\ disp.msg = Obj(One("mute", JBool(TRUE)))
    /\ disp.outcome = "success"
    /\ disp.startMute
    /\ devMute
    /\ Len(pubLog) = 2
    /\ pubLog[1].mute /\ pubLog[2].mute

\* ------------------------------------------------------------------------
\* C13
\* ------------------------------------------------------------------------
\* C13: a dispatched {"mute": v} is decoded as a command exactly when v is
\* true or false.  For 0, 1, "true", "True", "false" and "False" the
\* dispatch ends at once as ValidationError with no call made and the
\* device as it was; for a boolean the mute setter is invoked, setmute is
\* called exactly once, with that boolean, and a completed write leaves the
\* device mute equal to it.
C13_MuteBooleanOnly ==
    \A v \in MuteValues :
        (delivered > 0 /\ disp.msg = Obj(One("mute", v))) =>
            /\ handle_message(disp.msg).exc = "none" <=> v.t = "bool"
            /\ v.t # "bool" =>
                  /\ Idle
                  /\ disp.outcome = "ValidationError"
                  /\ calls = <<>>
                  /\ DeviceAsAtStart
            /\ v.t = "bool" =>
                  /\ disp.outcome # "ValidationError"
                  /\ calls # <<>> /\ calls[1] = "mute.setter"
                  /\ pc["dispatch"] = "setmute" =>
                        disp.arg = v /\ CallCount("setmute") = 0
                  /\ pc["dispatch"] # "setmute" => CallCount("setmute") = 1
                  /\ CallCount("getmute") <= 1
                  /\ disp.wrote => devMute = (v = JBool(TRUE))
                  /\ disp.outcome = "success" => disp.wrote

\* {"mute": false} unmuted a muted device with a single setmute call.
C13_Witness ==
    /\ Idle
    /\ disp.msg = Obj(One("mute", JBool(FALSE)))
    /\ disp.outcome = "success"
    /\ disp.startMute
    /\ ~devMute
    /\ CallCount("setmute") = 1

\* {"mute": "True"} was rejected.
C13_WitnessRejected ==
    /\ Idle
    /\ disp.msg = Obj(One("mute", JStr("True")))
    /\ disp.outcome = "ValidationError"

\* ------------------------------------------------------------------------
\* C14, C15
\* ------------------------------------------------------------------------
\* How many times the current dispatch invoked the controller method m.
Invoked(m) == IF calls # <<>> /\ calls[1] = m THEN 1 ELSE 0

\* C14: a dispatched {"volumeCtrl": s} with s = "+" invokes volume_up once
\* and volume_down not at all, with s = "-" volume_down once and volume_up
\* not at all; the value it then asks the mixer to set is the one that
\* method computes.  Every other value ends the dispatch as ValidationError
\* with no method invoked and no call made.
C14_VolumeCtrlPlusMinusOnly ==
    \A v \in ValuesOf("volumeCtrl") :
        (delivered > 0 /\ disp.msg = Obj(One("volumeCtrl", v))) =>
            /\ v = JStr("+") =>
                  /\ Invoked("volume_up") = 1 /\ Invoked("volume_down") = 0
                  /\ pc["dispatch"] = "setvolume" =>
                        disp.arg = JInt(volume_up(disp.curVolume, disp.step))
            /\ v = JStr("-") =>
                  /\ Invoked("volume_down") = 1 /\ Invoked("volume_up") = 0
                  /\ pc["dispatch"] = "setvolume" =>
                        disp.arg = JInt(volume_down(disp.curVolume, disp.step))
            /\ v \in {JStr("+"), JStr("-")} =>
                  /\ disp.outcome # "ValidationError"
                  /\ Len(calls) > 1 => calls[2] = "getvolume"
                  /\ CallCount("setvolume") <= 1
            /\ v \notin {JStr("+"), JStr("-")} =>
                  /\ Idle
                  /\ disp.outcome = "ValidationError"
                  /\ calls = <<>>
                  /\ DeviceAsAtStart

\* {"volumeCtrl": "-"} lowered the volume by the step of 25.
C14_Witness ==
    /\ Idle
    /\ disp.msg = Obj(One("volumeCtrl", JStr("-")))
    /\ disp.outcome = "success"
    /\ disp.startVolume = 95
    /\ devVolume = 70
    /\ calls[1] = "volume_down"

\* {"volumeCtrl": "+-"} was rejected.
C14_WitnessRejected ==
    /\ Idle
    /\ disp.msg = Obj(One("volumeCtrl", JStr("+-")))
    /\ disp.outcome = "ValidationError"

\* C15: a dispatched {"toggle": s} with s = "mute" invokes toggle_mute once
\* (the mute switch is read and its negation written) and never touches
\* the keyboard; with s = "pause" it invokes toggle_pause once: the
\* simulated key is pressed, then released, and the mixer is not called.
\* Every other value ("Mute", "Pause", "play", an integer) ends the
\* dispatch as ValidationError with neither invoked.
C15_ToggleMuteOrPauseOnly ==
    \A v \in ValuesOf("toggle") :
        (delivered > 0 /\ disp.msg = Obj(One("toggle", v))) =>
            /\ v = JStr("mute") =>
                  /\ Invoked("toggle_mute") = 1 /\ Invoked("toggle_pause") = 0
                  /\ Len(keyLog) = disp.startKeys
                  /\ Len(calls) > 1 => calls[2] = "getmute"
                  /\ Len(calls) > 2 => calls[3] = "setmute"
                  /\ CallCount("setmute") <= 1
                  /\ disp.wrote => devMute = ~disp.startMute
            /\ v = JStr("pause") =>
                  /\ Invoked("toggle_pause") = 1 /\ Invoked("toggle_mute") = 0
                  /\ Len(calls) > 1 => calls[2] = "press"
                  /\ Len(calls) > 2 => calls = <<"toggle_pause", "press",
                                                "release">>
                  /\ devVolume = disp.startVolume /\ devMute = disp.startMute
                  /\ disp.outcome = "success" =>
                        /\ Len(calls) = 3
                        /\ Len(keyLog) = disp.startKeys + 2
            /\ v \in {JStr("mute"), JStr("pause")} =>
                  disp.outcome # "ValidationError"
            /\ v \notin {JStr("mute"), JStr("pause")} =>
                  /\ Idle
                  /\ disp.outcome = "ValidationError"
                  /\ calls = <<>>
                  /\ DeviceAsAtStart

\* {"toggle": "pause"} pressed and released the key.
C15_Witness ==
    /\ Idle
    /\ disp.msg = Obj(One("toggle", JStr("pause")))
    /\ disp.outcome = "success"
    /\ calls = <<"toggle_pause", "press", "release">>

\* {"toggle": "mute"} muted an unmuted device.
C15_WitnessMute ==
    /\ Idle
    /\ disp.msg = Obj(One("toggle", JStr("mute")))
    /\ disp.outcome = "success"
    /\ ~disp.startMute
    /\ devMute

\* {"toggle": "Pause"} was rejected.
C15_WitnessRejected ==
    /\ Idle
    /\ disp.msg = Obj(One("toggle", JStr("Pause")))
    /\ disp.outcome = "ValidationError"

\* ------------------------------------------------------------------------
\* C16
\* ------------------------------------------------------------------------
\* C16: the dispatch of a JSON object with none of the keys volume,
\* volumeCtrl, mute, toggle (the empty object included) ends at once as
\* UnrecognizedCommandError, the outcome of a ValueError, with no method
\* invoked, no call made, nothing published and the device and the
\* keyboard as they were.
C16_NoKeyIsUnrecognized ==
    (delivered > 0 /\ disp.msg.kind = "json" /\ disp.msg.top = "object"
                   /\ PresentKeys(disp.msg) = {}) =>
        /\ Idle
        /\ disp.exc = "ValueError"
        /\ disp.outcome = "UnrecognizedCommandError"
        /\ disp.op = "none"
        /\ calls = <<>>
        /\ DeviceAsAtStart
        /\ PublishedSinceStart = 0

\* The empty object was dispatched after a command that changed the volume.
C16_Witness ==
    /\ Idle
    /\ delivered = 2
    /\ disp.msg = Obj(NoFields)
    /\ disp.outcome = "UnrecognizedCommandError"
    /\ devVolume = 50
    /\ Len(pubLog) = 1

\* An object with an unknown key only was dispatched.
C16_WitnessUnknownKey ==
    /\ Idle
    /\ disp.msg = ObjExtra(NoFields)
    /\ disp.outcome = "UnrecognizedCommandError"

\* ------------------------------------------------------------------------
\* C17
\* ------------------------------------------------------------------------
\* C17: periodic reporting is on exactly when STATUS_UPDATE_DELAY is
\* specified: once start() has connected and subscribed, with every valid
\* value d >= 0, 0 included, its main thread runs the update_status/sleep
\* loop; with the key absent it runs loop_forever and every publish is
\* made by a command.
C17_PeriodicIffDelaySpecified ==
    LET d == status_update_delay(cfg.STATUS_UPDATE_DELAY) IN
    pc["dispatch"] # "not_started" =>
        /\ (cfg.STATUS_UPDATE_DELAY.present /\ d.exc = "none"
                /\ d.val >= 0) =>
              pc["periodic"] # "loop_forever"
        /\ ~cfg.STATUS_UPDATE_DELAY.present =>
              /\ pc["periodic"] = "loop_forever"
              /\ \A i \in DOMAIN pubLog : pubLog[i].by = "dispatch"

\* ------------------------------------------------------------------------
\* C18
\* ------------------------------------------------------------------------
\* C18: volume_step returns 10 when VOLUME_STEP is absent, returns n when
\* VOLUME_STEP is the integer n or its decimal string and n is in 1..100,
\* raises ValueError for every integer (or decimal string of one) outside
\* 1..100, and never returns a value outside 1..100; a volumeCtrl command
\* computes its new volume with the returned step and fails when the
\* property raises.
C18_VolumeStepRange ==
    LET r == volume_step(cfg.VOLUME_STEP) IN
    /\ ~cfg.VOLUME_STEP.present => r = Ok(10)
    /\ \A n \in RawSteps :
          (\/ cfg.VOLUME_STEP = SetTo(n)
           \/ (n >= 0 /\ cfg.VOLUME_STEP = SetToStr(str(n)))) =>
              IF n \in 1..100 THEN r = Ok(n) ELSE r = Err("ValueError")
    /\ r.exc = "none" => r.val \in 1..100
    /\ pc["dispatch"] \in {"setvolume", "status_volume", "status_mute",
                           "publish"} =>
          /\ r.exc = "none"
          /\ disp.step = r.val
          /\ disp.step \in 1..100
    /\ (r.exc # "none" /\ delivered > 0) =>
          /\ CallCount("setvolume") = 0
          /\ devVolume = disp.startVolume
          /\ pc["dispatch"] = "idle" => disp.outcome \in Failures

\* VOLUME_STEP is the string "100": volume_up read 100 as its step.
C18_Witness ==
    /\ cfg.VOLUME_STEP = SetToStr(<<"1", "0", "0">>)
    /\ pc["dispatch"] = "setvolume"
    /\ calls = <<"volume_up", "getvolume">>
    /\ disp.step = 100

\* VOLUME_STEP is 101: volume_up failed on reading the step.
C18_WitnessOutOfRange ==
    /\ cfg.VOLUME_STEP = SetTo(101)
    /\ Idle
    /\ calls = <<"volume_up", "getvolume">>
    /\ disp.outcome = "UnrecognizedCommandError"

\* ------------------------------------------------------------------------
\* C19
\* ------------------------------------------------------------------------
\* C19: from a device volume in 0..100, after any sequence of messages,
\* valid or not, the device volume is in 0..100, and so are the volume
\* every status report read and the volume every publish carried.
C19_VolumeInRange ==
    /\ devVolume \in VOLUME_MIN..VOLUME_MAX
    /\ \A i \in DOMAIN pubLog : pubLog[i].volume \in VOLUME_MIN..VOLUME_MAX
    /\ pc["dispatch"] \in {"status_mute", "publish"} =>
          snap["dispatch"].volume \in VOLUME_MIN..VOLUME_MAX
    /\ (pc["dispatch"] = "setvolume" /\ disp.arg.t = "int") =>
          disp.arg.i \in VOLUME_MIN..VOLUME_MAX

\* Volume up from 95 was clamped to 100 and published, and an out-of-range
\* {"volume": 101} that followed was rejected.
C19_Witness ==
    /\ Idle
    /\ delivered = 2
    /\ disp.msg = Obj(One("volume", JInt(101)))
    /\ disp.outcome = "ValidationError"
    /\ devVolume = 100
    /\ Len(pubLog) = 1
    /\ pubLog[1].volume = 100

\* Volume down from 5 was clamped to 0 and published.
C19_WitnessLow ==
    /\ Idle
    /\ disp.msg = Obj(One("volumeCtrl", JStr("-")))
    /\ disp.startVolume = 5
    /\ devVolume = 0
    /\ PublishedSinceStart = 1
    /\ pubLog[Len(pubLog)].volume = 0

\* ------------------------------------------------------------------------
\* C20
\* ------------------------------------------------------------------------
\* The device state a command's write is to produce.
Written ==
    CASE disp.op = "volume" ->
             [volume |-> disp.msg.f["volume"].i, mute |-> disp.startMute]
      [] disp.op = "volumeCtrl" ->
             [volume |-> IF disp.msg.f["volumeCtrl"].s = "+"
                         THEN Min(disp.startVolume + disp.step, VOLUME_MAX)
                         ELSE Max(disp.startVolume - disp.step, VOLUME_MIN),
              mute |-> disp.startMute]
      [] disp.op = "mute" ->
             [volume |-> disp.startVolume,
              mute |-> disp.msg.f["mute"] = JBool(TRUE)]
      [] disp.op = "toggle" ->
             [volume |-> disp.startVolume, mute |-> ~disp.startMute]

\* C20: with serial dispatch and no periodic reporting, the status report
\* of a volume, volumeCtrl, mute or toggle-mute command is read after the
\* command's write: what it reads and what it publishes (once) is the
\* device state the write produced, which is the device state when the
\* command ends.
C20_StatusReadAfterWrite ==
    (delivered > 0 /\ disp.wrote /\ ~IsPause(disp.msg)) =>
        /\ devVolume = Written.volume /\ devMute = Written.mute
        /\ pc["dispatch"] \in {"status_mute", "publish"} =>
              snap["dispatch"].volume = devVolume
        /\ pc["dispatch"] = "publish" => snap["dispatch"].mute = devMute
        /\ disp.outcome = "success" =>
              /\ PublishedSinceStart = 1
              /\ LastPublish.by = "dispatch"
              /\ LastPublish.volume = devVolume
              /\ LastPublish.mute = devMute

\* {"volume": 50} on a device at 95: the status published carries 50.
C20_Witness ==
    /\ Idle
    /\ disp.msg = Obj(One("volume", JInt(50)))
    /\ disp.outcome = "success"
    /\ disp.startVolume = 95
    /\ PublishedSinceStart = 1
    /\ pubLog[Len(pubLog)].volume = 50
    /\ pubLog[Len(pubLog)].result = "MQTT_ERR_SUCCESS"

\* {"toggle": "mute"} on a muted device: the status published is unmuted.
C20_WitnessToggle ==
    /\ Idle
    /\ disp.msg = Obj(One("toggle", JStr("mute")))
    /\ disp.outcome = "success"
    /\ disp.startMute
    /\ PublishedSinceStart = 1
    /\ ~pubLog[Len(pubLog)].mute

\* ------------------------------------------------------------------------
\* C21
\* ------------------------------------------------------------------------
\* C21: a dispatched {"toggle": "mute"} reads the mute switch, which holds
\* what it held when the message arrived, asks the mixer for its negation,
\* and never writes the volume; a completed write leaves the switch
\* negated.  When two consecutive toggles both succeed there are exactly
\* two publish attempts, the first carrying the negation of the original
\* mute and the second the original mute, which the device holds again.
C21_ToggleMuteNegates ==
    (delivered > 0 /\ disp.msg = Obj(One("toggle", JStr("mute")))) =>
        /\ devVolume = disp.startVolume
        /\ pc["dispatch"] = "setmute" =>
              /\ disp.curMute = disp.startMute
              /\ disp.arg = JBool(~disp.startMute)
        /\ disp.wrote => devMute = ~disp.startMute
        /\ ~disp.wrote => devMute = disp.startMute
        /\ (Idle /\ delivered = 1 /\ executed = 1) =>
              /\ Len(pubLog) = 1
              /\ pubLog[1].mute = ~disp.startMute
        /\ (Idle /\ delivered = 2 /\ executed = 2) =>
              /\ Len(pubLog) = 2
              /\ disp.startMute = pubLog[1].mute
              /\ pubLog[2].mute = ~pubLog[1].mute
              /\ devMute = pubLog[2].mute

\* Two toggles of a muted device succeeded: it was unmuted, then muted
\* again, with one publish each.
C21_Witness ==
    /\ Idle
    /\ delivered = 2
    /\ executed = 2
    /\ disp.msg = Obj(One("toggle", JStr("mute")))
    /\ Len(pubLog) = 2
    /\ ~pubLog[1].mute
    /\ pubLog[2].mute
    /\ devMute

\* ------------------------------------------------------------------------
\* C22
\* ------------------------------------------------------------------------
\* The state of the per-message machine the dispatch thread is in.  The
\* decoding of handle_message is one step, so Received, Decoding, Decoded
\* and DecodeFailed are passed within the step that delivers the message.
Phase ==
    CASE pc["dispatch"] = "idle" /\ delivered = 0 -> "NoMessage"
      [] pc["dispatch"] = "idle" /\ delivered > 0 -> "Done"
      [] pc["dispatch"] \in {"getvolume", "setvolume", "getmute", "setmute",
                             "key_press", "key_release"} -> "Executing"
      [] pc["dispatch"] \in InStatus -> "Reporting"
      [] OTHER -> "Crashed"

\* What the message in flight has published.
PublishedByDispatch ==
    {i \in DOMAIN pubLog : i > disp.startPub /\ pubLog[i].by = "dispatch"}

\* A message is delivered only when the previous one is Done; it fails
\* decoding (Done at once) or starts Executing; and Done is left only by
\* the delivery of the next message.
Delivery ==
    /\ delivered' # delivered =>
          /\ Phase \in {"NoMessage", "Done"}
          /\ delivered' = delivered + 1
          /\ Phase' \in {"Done", "Executing"}
          /\ Phase' = "Done" => disp'.outcome \in Failures
    /\ (Phase \in {"NoMessage", "Done"} /\ Phase' # Phase) =>
          delivered' = delivered + 1

\* A message in flight does not fall back; from Executing it is Done only
\* through a failure, having published nothing, and it goes on Reporting
\* only after a device write that succeeded.
Progress ==
    Phase \in {"Executing", "Reporting"} =>
        /\ Phase' \in {"Executing", "Reporting", "Done"}
        /\ Phase = "Reporting" => Phase' # "Executing"
        /\ (Phase = "Executing" /\ Phase' = "Reporting") =>
              ~disp.wrote /\ disp'.wrote
        /\ (Phase = "Executing" /\ Phase' = "Done") =>
              /\ disp'.outcome \in Failures
              /\ PublishedByDispatch = {}

\* C22: every delivered message reaches Done exactly once, without retry
\* or cancellation: it is delivered only when the previous one is Done and
\* is Done at once when decoding fails; once Executing or Reporting it is
\* never delivered again, never falls back and is never left behind by the
\* end of the process; from Executing it is Done only through a failure,
\* with nothing published, and Reporting is entered only from Executing
\* after a device write that succeeded; and every message in flight is
\* eventually Done.
C22_EveryMessageRunsToDone ==
    /\ [][Delivery /\ Progress]_vars
    /\ [](~ProcessRuns => Phase \notin {"Executing", "Reporting"})
    /\ (Phase \in {"Executing", "Reporting"}) ~> (Phase = "Done")

\* C22, the part on cancellation alone: a message in flight is never left
\* behind by the end of the process.
C22_NoCancellation ==
    ~ProcessRuns => Phase \notin {"Executing", "Reporting"}

\* ------------------------------------------------------------------------
\* C23
\* ------------------------------------------------------------------------
\* C23: the configured volume step is not validated while dispatching: a
\* decoded volumeCtrl command fails only when a device call fails, that
\* is, with the mixer's ALSAAudioError.
C23_StepNeverFailsDispatch ==
    (delivered > 0 /\ disp.op = "volumeCtrl" /\ disp.outcome \in Failures) =>
        disp.exc = "ALSAAudioError"

\* ------------------------------------------------------------------------
\* C24
\* ------------------------------------------------------------------------
\* C24: the status a thread is about to publish is a (volume, mute) pair
\* the device held at some instant since that thread's update_status call
\* began, also when the periodic loop runs while messages are dispatched.
C24_SnapshotConsistent ==
    \A t \in Threads :
        pc[t] = "publish" => <<snap[t].volume, snap[t].mute>> \in seen[t]

\* ------------------------------------------------------------------------
\* C25
\* ------------------------------------------------------------------------
\* C25: in periodic mode the statuses reach publish in the order their
\* snapshots were taken: once the last command has published its own
\* status, every status published after it was read after that command's
\* write, and so carries the state the device has had since.
C25_PublishedInSnapshotOrder ==
    \A i \in DOMAIN pubLog :
        (i > disp.startPub /\ pubLog[i].by = "dispatch") =>
            \A j \in DOMAIN pubLog :
                j > i => /\ pubLog[j].volume = devVolume
                         /\ pubLog[j].mute = devMute

\* ------------------------------------------------------------------------
\* C26
\* ------------------------------------------------------------------------
\* C26: once on_disconnect has been invoked the controller terminates, so
\* that no step taken afterwards attempts a status publish, whether
\* periodic reporting is disabled or enabled.
C26_DisconnectStops ==
    [][pc["dispatch"] = "disconnected" => pubLog' = pubLog]_vars
====
